---------------------------- MODULE Spec2Model ----------------------------
(***************************************************************************)
(* A model of bulk-mailer: BulkMailer (src/bulk_mailer/bulk_mailer.py) and *)
(* EMailGenerator (src/bulk_mailer/email.py).                              *)
(*                                                                         *)
(* Text is modelled by TLA+ strings.  A CSV cell is the sequence of its    *)
(* characters (one-character strings), so that header normalisation works  *)
(* on characters as the code's regular expressions do.  A dict is a        *)
(* function whose domain is its set of keys.  A template body is a         *)
(* sequence of segments: literal text, a {{ variable }} reference, or a    *)
(* malformed tag.  The libraries the code calls (csv, frontmatter, jinja2, *)
(* mistune, html2text, envelope, smtplib) are modelled by their contract.  *)
(***************************************************************************)
EXTENDS Integers, Sequences, FiniteSets, TLC

VARIABLES
    self,       \* the BulkMailer object: its fields
    pc,         \* where the caller / BulkMailer.send is
    contexts,   \* send: the records _create_context yields, as it yields them
    i,          \* send: the loop index of enumerate(contexts)
    envelope,   \* send: the message generate returned for record i
    generated,  \* history: the record indexes generate was called for
    results,    \* history: what each generate call returned
    calls,      \* history: the calls made on the envelope collaborator
    err,        \* the exception send (or a builder call) ended with
    probe,      \* the front-matter splitter's input and output (ProbeSpec)
    args,       \* main: the parsed command line (CliSpec)
    exit_code,  \* main: the code passed to sys.exit, None while running
    delay,      \* the delay argument send is called with
    merge_dicts, \* what bulk_mailer.utils.merge_dicts does with its arguments
    records     \* history: the record each generate call was given, as it left it

vars == <<self, pc, contexts, i, envelope, generated, results, calls, err, probe,
          args, exit_code, delay, merge_dicts, records>>

-----------------------------------------------------------------------------
(* Python values *)

\* Python's None
None == "<None>"

\* a value that is not a string (a number, a bool, a list, as YAML loads
\* them), given by the text s it prints as; None is the one printed "None"
PyValue(s) == IF s = "None" THEN None ELSE "<py:" \o s \o ">"
IsPyValue(v) == v = None \/ (Len(v) > 5 /\ SubSeq(v, 1, 4) = "<py:")

\* str(v)
Str(v) ==
    IF v = None THEN "None"
    ELSE IF IsPyValue(v) THEN SubSeq(v, 5, Len(v) - 1)
    ELSE v

\* the values that are false where the code tests them: None, the empty
\* string, False, a zero of any numeric type and an empty container, each
\* given by the text it prints as
FalsyTexts ==
    {"False", "0", "0.0", "-0.0", "0j", "-0j", "(-0+0j)", "(-0-0j)",
     "[]", "{}", "()", "set()", "frozenset()", "b''", "bytearray(b'')", "range(0, 0)"}
Falsy == {None, ""} \cup {PyValue(s) : s \in FalsyTexts}

\* bool(v)
Truthy(v) == v \notin Falsy

\* a or b
Or(a, b) == IF Truthy(a) THEN a ELSE b

\* d.get(k, default)
Get(d, k, default) == IF k \in DOMAIN d THEN d[k] ELSE default

\* d[k] = v
Put(d, k, v) == [x \in (DOMAIN d) \cup {k} |-> IF x = k THEN v ELSE d[x]]

\* the empty dict
EmptyDict == [x \in {} |-> ""]

\* a returned value, or a raised exception
Ok(v) == [ok |-> TRUE, val |-> v, err |-> None]
Raise(e) == [ok |-> FALSE, val |-> None, err |-> e]

SetMax(S) == CHOOSE m \in S : \A n \in S : n <= m
SetMin(S) == CHOOSE m \in S : \A n \in S : m <= n
Min(a, b) == IF a <= b THEN a ELSE b

Max(a, b) == IF a >= b THEN a ELSE b

\* F applied to the value of e
With(e, F(_)) == CHOOSE v \in {F(x) : x \in {e}} : TRUE

\* "".join(cs)
RECURSIVE JoinRange(_, _, _)
JoinRange(cs, lo, hi) ==
    IF lo > hi THEN ""
    ELSE IF lo = hi THEN cs[lo]
    ELSE JoinRange(cs, lo, (lo + hi) \div 2) \o JoinRange(cs, (lo + hi) \div 2 + 1, hi)
Join(cs) == With(<<>> \o cs, LAMBDA v : JoinRange(v, 1, Len(v)))

-----------------------------------------------------------------------------
(* Header normalisation: _create_context, the loop over header_row *)

UpperCase == <<"A","B","C","D","E","F","G","H","I","J","K","L","M",
               "N","O","P","Q","R","S","T","U","V","W","X","Y","Z">>
LowerCase == <<"a","b","c","d","e","f","g","h","i","j","k","l","m",
               "n","o","p","q","r","s","t","u","v","w","x","y","z">>
Digits == {"0","1","2","3","4","5","6","7","8","9"}

\* A character outside Latin-1 is written by its code point, as in "<U+212A>".
\* The capitals str.lower() changes outside ASCII that a cell of the model may
\* hold (the Latin blocks up to U+024F and the letterlike signs U+2126, U+212A,
\* U+212B), and the characters it turns each into; U+0130 becomes two
NonAsciiUpper == <<"À","Á","Â","Ã","Ä","Å","Æ","Ç","È","É","Ê","Ë","Ì","Í","Î",
                  "Ï","Ð","Ñ","Ò","Ó","Ô","Õ","Ö","Ø","Ù","Ú","Û","Ü","Ý","Þ",
                  "<U+0100>","<U+0102>","<U+0104>","<U+0106>","<U+0108>",
                  "<U+010A>","<U+010C>","<U+010E>","<U+0110>","<U+0112>",
                  "<U+0114>","<U+0116>","<U+0118>","<U+011A>","<U+011C>",
                  "<U+011E>","<U+0120>","<U+0122>","<U+0124>","<U+0126>",
                  "<U+0128>","<U+012A>","<U+012C>","<U+012E>","<U+0130>",
                  "<U+0132>","<U+0134>","<U+0136>","<U+0139>","<U+013B>",
                  "<U+013D>","<U+013F>","<U+0141>","<U+0143>","<U+0145>",
                  "<U+0147>","<U+014A>","<U+014C>","<U+014E>","<U+0150>",
                  "<U+0152>","<U+0154>","<U+0156>","<U+0158>","<U+015A>",
                  "<U+015C>","<U+015E>","<U+0160>","<U+0162>","<U+0164>",
                  "<U+0166>","<U+0168>","<U+016A>","<U+016C>","<U+016E>",
                  "<U+0170>","<U+0172>","<U+0174>","<U+0176>","<U+0178>",
                  "<U+0179>","<U+017B>","<U+017D>","<U+0181>","<U+0182>",
                  "<U+0184>","<U+0186>","<U+0187>","<U+0189>","<U+018A>",
                  "<U+018B>","<U+018E>","<U+018F>","<U+0190>","<U+0191>",
                  "<U+0193>","<U+0194>","<U+0196>","<U+0197>","<U+0198>",
                  "<U+019C>","<U+019D>","<U+019F>","<U+01A0>","<U+01A2>",
                  "<U+01A4>","<U+01A6>","<U+01A7>","<U+01A9>","<U+01AC>",
                  "<U+01AE>","<U+01AF>","<U+01B1>","<U+01B2>","<U+01B3>",
                  "<U+01B5>","<U+01B7>","<U+01B8>","<U+01BC>","<U+01C4>",
                  "<U+01C5>","<U+01C7>","<U+01C8>","<U+01CA>","<U+01CB>",
                  "<U+01CD>","<U+01CF>","<U+01D1>","<U+01D3>","<U+01D5>",
                  "<U+01D7>","<U+01D9>","<U+01DB>","<U+01DE>","<U+01E0>",
                  "<U+01E2>","<U+01E4>","<U+01E6>","<U+01E8>","<U+01EA>",
                  "<U+01EC>","<U+01EE>","<U+01F1>","<U+01F2>","<U+01F4>",
                  "<U+01F6>","<U+01F7>","<U+01F8>","<U+01FA>","<U+01FC>",
                  "<U+01FE>","<U+0200>","<U+0202>","<U+0204>","<U+0206>",
                  "<U+0208>","<U+020A>","<U+020C>","<U+020E>","<U+0210>",
                  "<U+0212>","<U+0214>","<U+0216>","<U+0218>","<U+021A>",
                  "<U+021C>","<U+021E>","<U+0220>","<U+0222>","<U+0224>",
                  "<U+0226>","<U+0228>","<U+022A>","<U+022C>","<U+022E>",
                  "<U+0230>","<U+0232>","<U+023A>","<U+023B>","<U+023D>",
                  "<U+023E>","<U+0241>","<U+0243>","<U+0244>","<U+0245>",
                  "<U+0246>","<U+0248>","<U+024A>","<U+024C>","<U+024E>",
                  "<U+2126>","<U+212A>","<U+212B>">>
NonAsciiLower == <<<<"à">>,<<"á">>,<<"â">>,<<"ã">>,<<"ä">>,<<"å">>,<<"æ">>,
                  <<"ç">>,<<"è">>,<<"é">>,<<"ê">>,<<"ë">>,<<"ì">>,<<"í">>,
                  <<"î">>,<<"ï">>,<<"ð">>,<<"ñ">>,<<"ò">>,<<"ó">>,<<"ô">>,
                  <<"õ">>,<<"ö">>,<<"ø">>,<<"ù">>,<<"ú">>,<<"û">>,<<"ü">>,
                  <<"ý">>,<<"þ">>,<<"<U+0101>">>,<<"<U+0103>">>,<<"<U+0105>">>,
                  <<"<U+0107>">>,<<"<U+0109>">>,<<"<U+010B>">>,<<"<U+010D>">>,
                  <<"<U+010F>">>,<<"<U+0111>">>,<<"<U+0113>">>,<<"<U+0115>">>,
                  <<"<U+0117>">>,<<"<U+0119>">>,<<"<U+011B>">>,<<"<U+011D>">>,
                  <<"<U+011F>">>,<<"<U+0121>">>,<<"<U+0123>">>,<<"<U+0125>">>,
                  <<"<U+0127>">>,<<"<U+0129>">>,<<"<U+012B>">>,<<"<U+012D>">>,
                  <<"<U+012F>">>,<<"i","<U+0307>">>,<<"<U+0133>">>,
                  <<"<U+0135>">>,<<"<U+0137>">>,<<"<U+013A>">>,<<"<U+013C>">>,
                  <<"<U+013E>">>,<<"<U+0140>">>,<<"<U+0142>">>,<<"<U+0144>">>,
                  <<"<U+0146>">>,<<"<U+0148>">>,<<"<U+014B>">>,<<"<U+014D>">>,
                  <<"<U+014F>">>,<<"<U+0151>">>,<<"<U+0153>">>,<<"<U+0155>">>,
                  <<"<U+0157>">>,<<"<U+0159>">>,<<"<U+015B>">>,<<"<U+015D>">>,
                  <<"<U+015F>">>,<<"<U+0161>">>,<<"<U+0163>">>,<<"<U+0165>">>,
                  <<"<U+0167>">>,<<"<U+0169>">>,<<"<U+016B>">>,<<"<U+016D>">>,
                  <<"<U+016F>">>,<<"<U+0171>">>,<<"<U+0173>">>,<<"<U+0175>">>,
                  <<"<U+0177>">>,<<"ÿ">>,<<"<U+017A>">>,<<"<U+017C>">>,
                  <<"<U+017E>">>,<<"<U+0253>">>,<<"<U+0183>">>,<<"<U+0185>">>,
                  <<"<U+0254>">>,<<"<U+0188>">>,<<"<U+0256>">>,<<"<U+0257>">>,
                  <<"<U+018C>">>,<<"<U+01DD>">>,<<"<U+0259>">>,<<"<U+025B>">>,
                  <<"<U+0192>">>,<<"<U+0260>">>,<<"<U+0263>">>,<<"<U+0269>">>,
                  <<"<U+0268>">>,<<"<U+0199>">>,<<"<U+026F>">>,<<"<U+0272>">>,
                  <<"<U+0275>">>,<<"<U+01A1>">>,<<"<U+01A3>">>,<<"<U+01A5>">>,
                  <<"<U+0280>">>,<<"<U+01A8>">>,<<"<U+0283>">>,<<"<U+01AD>">>,
                  <<"<U+0288>">>,<<"<U+01B0>">>,<<"<U+028A>">>,<<"<U+028B>">>,
                  <<"<U+01B4>">>,<<"<U+01B6>">>,<<"<U+0292>">>,<<"<U+01B9>">>,
                  <<"<U+01BD>">>,<<"<U+01C6>">>,<<"<U+01C6>">>,<<"<U+01C9>">>,
                  <<"<U+01C9>">>,<<"<U+01CC>">>,<<"<U+01CC>">>,<<"<U+01CE>">>,
                  <<"<U+01D0>">>,<<"<U+01D2>">>,<<"<U+01D4>">>,<<"<U+01D6>">>,
                  <<"<U+01D8>">>,<<"<U+01DA>">>,<<"<U+01DC>">>,<<"<U+01DF>">>,
                  <<"<U+01E1>">>,<<"<U+01E3>">>,<<"<U+01E5>">>,<<"<U+01E7>">>,
                  <<"<U+01E9>">>,<<"<U+01EB>">>,<<"<U+01ED>">>,<<"<U+01EF>">>,
                  <<"<U+01F3>">>,<<"<U+01F3>">>,<<"<U+01F5>">>,<<"<U+0195>">>,
                  <<"<U+01BF>">>,<<"<U+01F9>">>,<<"<U+01FB>">>,<<"<U+01FD>">>,
                  <<"<U+01FF>">>,<<"<U+0201>">>,<<"<U+0203>">>,<<"<U+0205>">>,
                  <<"<U+0207>">>,<<"<U+0209>">>,<<"<U+020B>">>,<<"<U+020D>">>,
                  <<"<U+020F>">>,<<"<U+0211>">>,<<"<U+0213>">>,<<"<U+0215>">>,
                  <<"<U+0217>">>,<<"<U+0219>">>,<<"<U+021B>">>,<<"<U+021D>">>,
                  <<"<U+021F>">>,<<"<U+019E>">>,<<"<U+0223>">>,<<"<U+0225>">>,
                  <<"<U+0227>">>,<<"<U+0229>">>,<<"<U+022B>">>,<<"<U+022D>">>,
                  <<"<U+022F>">>,<<"<U+0231>">>,<<"<U+0233>">>,<<"<U+2C65>">>,
                  <<"<U+023C>">>,<<"<U+019A>">>,<<"<U+2C66>">>,<<"<U+0242>">>,
                  <<"<U+0180>">>,<<"<U+0289>">>,<<"<U+028C>">>,<<"<U+0247>">>,
                  <<"<U+0249>">>,<<"<U+024B>">>,<<"<U+024D>">>,<<"<U+024F>">>,
                  <<"<U+03C9>">>,<<"k">>,<<"å">>>>

Range(s) == {s[j] : j \in DOMAIN s}
Letters == Range(UpperCase) \cup Range(LowerCase)
IsLetter(c) == c \in Letters

\* str.lower() as a table: each capital and the characters it becomes
LowerOf ==
    [c \in Range(UpperCase) \cup Range(NonAsciiUpper) |->
        IF c \in Range(UpperCase)
        THEN <<LowerCase[CHOOSE j \in DOMAIN UpperCase : UpperCase[j] = c]>>
        ELSE NonAsciiLower[CHOOSE j \in DOMAIN NonAsciiUpper : NonAsciiUpper[j] = c]]

\* hr.lower(), for one character of hr: the characters it becomes
Lower(c) == IF c \in DOMAIN LowerOf THEN LowerOf[c] ELSE <<c>>

\* hr.lower(): the characters of the lowered cell
RECURSIVE LowerCell(_)
LowerCell(cell) ==
    IF cell = <<>> THEN <<>> ELSE Lower(Head(cell)) \o LowerCell(Tail(cell))

\* re.sub('[^0-9a-zA-Z_]', '_', hr), one character
SubInvalid(c) == IF IsLetter(c) \/ c \in Digits \/ c = "_" THEN c ELSE "_"

\* re.sub('^[^a-zA-Z_]+', '', hr): drop the leading run of characters that
\* are neither a letter nor an underscore
RECURSIVE StripLeading(_)
StripLeading(cs) ==
    IF cs = <<>> THEN <<>>
    ELSE IF IsLetter(Head(cs)) \/ Head(cs) = "_" THEN cs
    ELSE StripLeading(Tail(cs))

\* one header cell -> its identifier
NormalizeHeader(cell) ==
    LET hr == LowerCell(cell)
    IN  Join(StripLeading([j \in DOMAIN hr |-> SubInvalid(hr[j])]))

-----------------------------------------------------------------------------
(* The CSV loader: BulkMailer._create_context *)

\* the column names searched for the recipient, in the order searched
EmailColumnNames == <<"mail", "e_mail", "email", "to">>

\* header.index(var_name) for the first var_name in header; 0 when the
\* for/else falls through
RecipientColumn(header) ==
    LET found == {n \in DOMAIN EmailColumnNames :
                     EmailColumnNames[n] \in Range(header)}
    IN  IF found = {} THEN 0
        ELSE SetMin({j \in DOMAIN header :
                        header[j] = EmailColumnNames[SetMin(found)]})

\* {header[i]: val for i, val in enumerate(csv_row)}: a later cell of a
\* repeated header name replaces the earlier one.  Needs Len(row) <= Len(header).
RowDict(header, row) ==
    [k \in {header[j] : j \in DOMAIN row} |->
        Join(row[SetMax({j \in DOMAIN row : header[j] = k})])]

\* the body of the loop over data rows, for one row
RowContext(header, col, row, sender, subject) ==
    IF Len(row) > Len(header) THEN Raise("IndexError")
    ELSE LET d0 == RowDict(header, row)
             d1 == IF Truthy(sender)
                   THEN Put(Put(d0, "from", sender), "sender", sender)
                   ELSE d0
             d2 == IF Truthy(subject) THEN Put(d1, "subject", subject) ELSE d1
         IN  IF col > Len(row) THEN Raise("IndexError")
             ELSE Ok(Put(Put(d2, "recipient", Join(row[col])), "to", Join(row[col])))

\* the loop over data rows: the records of rows[from..], or the first error
RECURSIVE DataRows(_, _, _, _, _, _)
DataRows(header, col, rows, from, sender, subject) ==
    IF from > Len(rows) THEN Ok(<<>>)
    ELSE LET r == RowContext(header, col, rows[from], sender, subject)
         IN  IF ~r.ok THEN r
             ELSE LET rest == DataRows(header, col, rows, from + 1, sender, subject)
                  IN  IF ~rest.ok THEN rest ELSE Ok(<<r.val>> \o rest.val)

\* one CSV source: the body of the loop over self._csv_input
LoadSource(cfg, sender, subject) ==
    LET rows == cfg.rows
        h == cfg.skip_rows + 1
    IN  IF Len(rows) < h THEN Ok(<<>>)          \* StopIteration, swallowed
        ELSE LET header == [j \in DOMAIN rows[h] |-> NormalizeHeader(rows[h][j])]
                 col == RecipientColumn(header)
             IN  IF \E j \in DOMAIN header : header[j] = ""
                 THEN Raise("NameError: missing a proper header")
                 ELSE IF col = 0
                 THEN Raise("NameError: missing an email column")
                 ELSE DataRows(header, col, rows, h + 1, sender, subject)

\* the loop over self._csv_input with each source's records put before those
\* of the sources already read
RECURSIVE LoadSources_Reversed(_, _, _, _)
LoadSources_Reversed(csv_input, from, sender, subject) ==
    IF from > Len(csv_input) THEN Ok(<<>>)
    ELSE LET r == LoadSource(csv_input[from], sender, subject)
         IN  IF ~r.ok THEN r
             ELSE LET rest == LoadSources_Reversed(csv_input, from + 1, sender, subject)
                  IN  IF ~rest.ok THEN rest ELSE Ok(rest.val \o r.val)

\* the loop over self._csv_input: the records of csv_input[from..] in order,
\* or the first error
RECURSIVE LoadSources(_, _, _, _)
LoadSources(csv_input, from, sender, subject) ==
    IF from > Len(csv_input) THEN Ok(<<>>)
    ELSE LET r == LoadSource(csv_input[from], sender, subject)
         IN  IF ~r.ok THEN r
             ELSE LET rest == LoadSources(csv_input, from + 1, sender, subject)
                  IN  IF ~rest.ok THEN rest ELSE Ok(r.val \o rest.val)

\* BulkMailer._create_context; iterating self._csv_input when csv_input was
\* never called (None) is a TypeError
CreateContext(obj) ==
    IF obj.csv_input = None THEN Raise("TypeError")
    ELSE LoadSources(obj.csv_input, 1, obj.sender, obj.subject)

-----------------------------------------------------------------------------
(* Templates.  A template document is the text frontmatter.parse splits into *)
(* a metadata block (key/value pairs in document order) and a body; the      *)
(* empty string is the document that is not present.                         *)

Lit(s) == [kind |-> "lit", s |-> s]
Var(s) == [kind |-> "var", s |-> s]
Bad == [kind |-> "bad", s |-> ""]

EmptyTemplate == [present |-> FALSE, meta |-> <<>>, body |-> <<>>]
Template(meta, body) == [present |-> TRUE, meta |-> meta, body |-> body]

\* the class attribute EMailGenerator.DEFAULTHTML_TEMPLATE
DEFAULTHTML_TEMPLATE ==
    Template(<<>>,
        << Lit("<html dir=\"ltr\"><head></head><body style=\"text-align:left; direction:ltr;\">"),
           Var("content"),
           Lit("</body></html>") >>)

\* the substituted text of a well-formed body whose variables are all defined
RECURSIVE Substitute(_, _)
Substitute(body, context) ==
    IF body = <<>> THEN ""
    ELSE (IF Head(body).kind = "var" THEN Str(context[Head(body).s]) ELSE Head(body).s)
         \o Substitute(Tail(body), context)

\* JinjaRenderer.render: StrictUndefined; a syntax error is found when the
\* template is compiled, before any variable is looked up
JinjaRender(body, context) ==
    IF \E j \in DOMAIN body : body[j].kind = "bad"
    THEN Raise("TemplateError")
    ELSE IF \E j \in DOMAIN body : body[j].kind = "var" /\ body[j].s \notin DOMAIN context
    THEN Raise("UndefinedError")
    ELSE Ok(Substitute(body, context))

\* the characters of a text
Chars(s) == <<>> \o [j \in 1..Len(s) |-> SubSeq(s, j, j)]

\* the indices of cs, in order, and n spaces
Indices(cs) == [j \in 1..Len(cs) |-> j]
Spaces(n) == [j \in 1..n |-> " "]

\* the sequences ss[lo] .. ss[hi], one after another
RECURSIVE ConcatRange(_, _, _)
ConcatRange(ss, lo, hi) ==
    IF lo > hi THEN <<>>
    ELSE IF lo = hi THEN ss[lo]
    ELSE ConcatRange(ss, lo, (lo + hi) \div 2) \o ConcatRange(ss, (lo + hi) \div 2 + 1, hi)
Concat(ss) == With(<<>> \o ss, LAMBDA v : ConcatRange(v, 1, Len(v)))

\* the least index of near, else the least of far, else 0: a search looks at
\* the next few characters first and at the rest only when it has to
First(near, far) ==
    IF near # {} THEN SetMin(near) ELSE IF far # {} THEN SetMin(far) ELSE 0

\* the least index from k on where cs has c, where it has a followed by b,
\* where it has the characters pat; 0 if none
Find(cs, k, c) ==
    First({j \in k..Min(k + 15, Len(cs)) : cs[j] = c},
          {j \in (k + 16)..Len(cs) : cs[j] = c})
FindPair(cs, k, a, b) ==
    First({j \in k..Min(k + 15, Len(cs) - 1) : cs[j] = a /\ cs[j + 1] = b},
          {j \in (k + 16)..(Len(cs) - 1) : cs[j] = a /\ cs[j + 1] = b})
StartsWith(cs, j, pat) ==
    j + Len(pat) - 1 <= Len(cs) /\ SubSeq(cs, j, j + Len(pat) - 1) = pat
FindSeq(cs, k, pat) ==
    First({j \in k..Min(k + 15, Len(cs)) : StartsWith(cs, j, pat)},
          {j \in (k + 16)..Len(cs) : StartsWith(cs, j, pat)})

\* the least index from k on where cs has a character outside S (RunEnd), a
\* character of S (Until); Len(cs) + 1 if none
RunEnd(cs, k, S) ==
    IF k > Len(cs) THEN k
    ELSE First({j \in k..Min(k + 15, Len(cs) + 1) : j > Len(cs) \/ cs[j] \notin S},
               {j \in (k + 16)..(Len(cs) + 1) : j > Len(cs) \/ cs[j] \notin S})
Until(cs, k, S) ==
    IF k > Len(cs) THEN k
    ELSE First({j \in k..Min(k + 15, Len(cs) + 1) : j > Len(cs) \/ cs[j] \in S},
               {j \in (k + 16)..(Len(cs) + 1) : j > Len(cs) \/ cs[j] \in S})

\* the greatest index up to k where cs has a character of S (RFind), a
\* character outside S (RunStart); 0 if none.  d counts back from k.
Back(k, d) == IF d = 0 THEN 0 ELSE k - d + 1
RFind(cs, k, S) ==
    Back(k, First({d \in 1..Min(16, k) : cs[k - d + 1] \in S},
                  {d \in 17..k : cs[k - d + 1] \in S}))
RunStart(cs, k, S) ==
    Back(k, First({d \in 1..Min(16, k) : cs[k - d + 1] \notin S},
                  {d \in 17..k : cs[k - d + 1] \notin S}))

\* cs without its leading / trailing run of the characters in drop
LStrip(cs, drop) == SubSeq(cs, RunEnd(cs, 1, drop), Len(cs))
RStrip(cs, drop) == SubSeq(cs, 1, RunStart(cs, Len(cs), drop))

\* the characters of cs at the indices kept
Keep(cs, kept) == <<>> \o [n \in DOMAIN kept |-> cs[kept[n]]]

\* cs.split(sep): the pieces of cs between the separators, which are at seps
SplitAt(cs, seps) ==
    <<>> \o [n \in 1..(Len(seps) + 1) |->
               SubSeq(cs, IF n = 1 THEN 1 ELSE seps[n - 1] + 1,
                          IF n > Len(seps) THEN Len(cs) ELSE seps[n] - 1)]
Split(cs, sep) ==
    With(SelectSeq(Indices(cs), LAMBDA j : cs[j] = sep), LAMBDA seps : SplitAt(cs, seps))

\* the least L with 2^L >= n
RECURSIVE Bits(_)
Bits(n) == IF n <= 1 THEN 0 ELSE 1 + Bits((n + 1) \div 2)

\* the tokens of a text of n characters from the token t on: Tok(u) is the
\* token that follows the token u, u.next the index where it starts.  The
\* tokens are worked out 2^L at a time.
RECURSIVE OrbitUpTo(_, _, _, _)
OrbitUpTo(Tok(_), t, n, L) ==
    IF L = 0 THEN <<t>>
    ELSE With(OrbitUpTo(Tok, t, n, L - 1),
              LAMBDA a : IF a[Len(a)].next > n THEN a
                         ELSE a \o OrbitUpTo(Tok, Tok(a[Len(a)]), n, L - 1))
Orbit(Tok(_), t, n) == OrbitUpTo(Tok, t, n, Bits(n))

\* t0, which stands before the text and ends where it starts, and the tokens
\* of the text after it
OrbitAfter(Tok(_), t0, n) == OrbitUpTo(Tok, t0, n, Bits(n + 1))

\* Op applied to acc and s[lo], to its result and s[lo + 1], and so on to
\* s[hi]
RECURSIVE FoldSeq(_, _, _, _, _)
FoldSeq(Op(_, _), s, acc, lo, hi) ==
    IF lo > hi THEN acc
    ELSE IF lo = hi THEN Op(acc, s[lo])
    ELSE With(FoldSeq(Op, s, acc, lo, (lo + hi) \div 2),
              LAMBDA mid : FoldSeq(Op, s, mid, (lo + hi) \div 2 + 1, hi))

\* the characters Python's \s and str.strip() take for whitespace, among those
\* a text of the model holds: the ASCII ones and the no-break space U+00A0
\* (the vertical tab, the separators U+001C to U+001F and U+0085, and those
\* outside Latin-1, no text of the model holds); and those that end a tag's
\* name and that textwrap takes for whitespace, the ASCII ones only
AsciiWhitespace == {" ", "\n", "\t", "\r", "\f"}
Whitespace == AsciiWhitespace \cup {" "}

\* the letters and numbers from U+0080 to U+024F that str.lower() leaves as
\* they are and gives for no capital of NonAsciiUpper: the ordinal
\* indicators, the superscripts and fractions of Latin-1, the micro sign, the
\* sharp s, and the caseless letters and the small letters without a capital
\* in these blocks
NonAsciiWord ==
    {"ª", "²", "³", "µ", "¹", "º", "¼", "½", "¾", "ß", "<U+0131>",
     "<U+0138>", "<U+0149>", "<U+017F>", "<U+018D>", "<U+019B>", "<U+01AA>",
     "<U+01AB>", "<U+01BA>", "<U+01BB>", "<U+01BE>", "<U+01C0>", "<U+01C1>",
     "<U+01C2>", "<U+01C3>", "<U+01F0>", "<U+0221>", "<U+0234>", "<U+0235>",
     "<U+0236>", "<U+0237>", "<U+0238>", "<U+0239>", "<U+023F>", "<U+0240>"}

\* the characters Python's \w matches, among those a text of the model holds
WordChars ==
    Letters \cup Digits \cup {"_"} \cup Range(NonAsciiUpper)
    \cup {l[1] : l \in {x \in Range(NonAsciiLower) : Len(x) = 1}}
    \cup NonAsciiWord

\* mistune.preprocessing: \r\n and \r become \n
MdNewlines(cs) ==
    With(SelectSeq(Indices(cs), LAMBDA j : ~(cs[j] = "\r" /\ j < Len(cs) /\ cs[j + 1] = "\n")),
         LAMBDA kept : <<>> \o [n \in DOMAIN kept |->
                                   IF cs[kept[n]] = "\r" THEN "\n" ELSE cs[kept[n]]])

\* mistune.preprocessing: text.expandtabs(4).  A tab fills up to the next
\* column that is a multiple of 4; the column of a tab is the number of
\* characters since the last tab or line end before it.
ExpandTabs(cs) ==
    IF Find(cs, 1, "\t") = 0 THEN cs
    ELSE Concat([j \in DOMAIN cs |->
                    IF cs[j] = "\t"
                    THEN Spaces(4 - ((j - 1 - RFind(cs, j - 1, {"\t", "\n"})) % 4))
                    ELSE <<cs[j]>>])

\* mistune.preprocessing: a line of nothing but spaces becomes an empty line
\* (the space at j is one of such a line)
MdInBlankLine(cs, j) ==
    /\ RunStart(cs, j, {" "}) = 0 \/ cs[RunStart(cs, j, {" "})] = "\n"
    /\ RunEnd(cs, j, {" "}) > Len(cs) \/ cs[RunEnd(cs, j, {" "})] = "\n"
MdBlankLines(cs) ==
    Keep(cs, SelectSeq(Indices(cs), LAMBDA j : ~(cs[j] = " " /\ MdInBlankLine(cs, j))))
Preprocessing(cs) ==
    With(MdNewlines(cs), LAMBDA a : With(ExpandTabs(a), LAMBDA b : MdBlankLines(b)))

\* the characters a backslash escapes (InlineGrammar.escape); the backtick,
\* which no text of the model holds, is left out
MdEscapable ==
    {"\\", "*", "{", "}", "[", "]", "(", ")", "#", "+", "-", ".", "!", "_",
     ">", "~", "|"}

\* whether the & at k in cs starts an entity, &name; or &#digits;
\* (mistune's _escape_pattern: an & that #?\w+; follows is left alone)
AmpName(cs, k) == IF k + 1 <= Len(cs) /\ cs[k + 1] = "#" THEN k + 2 ELSE k + 1
AmpIsEntity(cs, k) ==
    /\ RunEnd(cs, AmpName(cs, k), WordChars) > AmpName(cs, k)
    /\ RunEnd(cs, AmpName(cs, k), WordChars) <= Len(cs)
    /\ cs[RunEnd(cs, AmpName(cs, k), WordChars)] = ";"

\* mistune.escape(text), the character at k of the text cs
MdEscapeAt(cs, k) ==
    IF cs[k] = "&" THEN (IF AmpIsEntity(cs, k) THEN "&" ELSE "&amp;")
    ELSE IF cs[k] = "<" THEN "&lt;"
    ELSE IF cs[k] = ">" THEN "&gt;"
    ELSE cs[k]
MdEscape(cs) == With(cs, LAMBDA v : Join([k \in DOMAIN v |-> MdEscapeAt(v, k)]))

\* the characters InlineGrammar.text stops in front of (the backtick left
\* out), and whether cs has one of them, a URL or a line end at j
MdSpecial == {"\\", "<", "!", "[", "_", "*", "~"}
MdTextStop(cs, j) ==
    \/ cs[j] \in MdSpecial
    \/ cs[j] = "h" /\ (StartsWith(cs, j, Chars("http://")) \/ StartsWith(cs, j, Chars("https://")))
    \/ cs[j] \in {" ", "\n"} /\ RunEnd(cs, j, {" "}) <= Len(cs) /\ cs[RunEnd(cs, j, {" "})] = "\n"

\* InlineGrammar.text under hard_wrap: the text is at least one character and
\* ends in front of the first stop from j on
TextEnd(cs, j) ==
    IF j > Len(cs) THEN j
    ELSE First({k \in j..Min(j + 15, Len(cs) + 1) : k > Len(cs) \/ MdTextStop(cs, k)},
               {k \in (j + 16)..(Len(cs) + 1) : k > Len(cs) \/ MdTextStop(cs, k)})

\* InlineGrammar.double_emphasis, for a pair of c: where the closing pair
\* starts, the first one from k on that no third c follows; 0 if none
StrongAt(cs, e, c) ==
    cs[e] = c /\ cs[e + 1] = c /\ ~(e + 2 <= Len(cs) /\ cs[e + 2] = c)
StrongEnd(cs, k, c) ==
    First({e \in k..Min(k + 15, Len(cs) - 1) : StrongAt(cs, e, c)},
          {e \in (k + 16)..(Len(cs) - 1) : StrongAt(cs, e, c)})

\* where the double emphasis that opens at p closes: its content is at least
\* one character
DoubleEnd(cs, p) ==
    IF p < Len(cs) /\ cs[p] \in {"*", "_"} /\ cs[p + 1] = cs[p]
    THEN StrongEnd(cs, p + 3, cs[p])
    ELSE 0

\* InlineGrammar.emphasis, the mark c opening at p: the content is pairs cc
\* and characters other than c, so of a run of c after p all but the last are
\* pairs, and only the last c of a run of odd length can close; where the
\* first such c is, 0 if none
EmCloses(cs, p, s, c) ==
    /\ cs[s] = c
    /\ ~(s < Len(cs) /\ cs[s + 1] = c)
    /\ (s - Max(p, RunStart(cs, s, {c}))) % 2 = 1
EmClose(cs, p, c) ==
    First({s \in (p + 1)..Min(p + 16, Len(cs)) : EmCloses(cs, p, s, c)},
          {s \in (p + 17)..Len(cs) : EmCloses(cs, p, s, c)})

\* where the emphasis that opens at p closes, 0 if none opens: the content
\* is not empty, and a closing _ ends a word (\b: no word character follows)
EmEnd(cs, p) ==
    IF cs[p] \notin {"*", "_"} THEN 0
    ELSE With(EmClose(cs, p, cs[p]),
              LAMBDA s : IF s = 0 \/ s = p + 1 THEN 0
                         ELSE IF cs[p] = "_" /\ s < Len(cs) /\ cs[s + 1] \in WordChars THEN 0
                         ELSE s)

\* InlineGrammar.linebreak under hard_wrap, ^ *\n(?!\s*$): where the newline
\* of the line break at p is, n the end of the spaces at p; 0 if there is none
LineBreak(cs, p) ==
    IF cs[p] \notin {" ", "\n"} THEN 0
    ELSE With(RunEnd(cs, p, {" "}),
              LAMBDA n : IF n <= Len(cs) /\ cs[n] = "\n"
                            /\ RunEnd(cs, n + 1, Whitespace) <= Len(cs)
                         THEN n ELSE 0)

\* InlineLexer.output at p, the rules in their order: escape,
\* double_emphasis, emphasis, linebreak, text.  A token is what one rule
\* matches: its content is cs[lo .. hi], the next token starts at next.
MdToken(kind, lo, hi, next) == [kind |-> kind, lo |-> lo, hi |-> hi, next |-> next]
MdSpanTo(kind, p, w, e) == MdToken(kind, p + w, e - 1, e + w)
MdTokenAt(cs, p) ==
    IF p < Len(cs) /\ cs[p] = "\\" /\ cs[p + 1] \in MdEscapable
    THEN MdToken("escape", p + 1, p + 1, p + 2)
    ELSE IF DoubleEnd(cs, p) # 0 THEN MdSpanTo("double_emphasis", p, 2, DoubleEnd(cs, p))
    ELSE IF EmEnd(cs, p) # 0 THEN MdSpanTo("emphasis", p, 1, EmEnd(cs, p))
    ELSE IF LineBreak(cs, p) # 0
    THEN MdToken("linebreak", p, LineBreak(cs, p), LineBreak(cs, p) + 1)
    ELSE MdSpanTo("text", p, 0, TextEnd(cs, p + 1))

\* InlineLexer.output on a text, which it takes without the newlines at its
\* end (text.rstrip('\n')): the output of its tokens; the content of an
\* emphasis is lexed in turn, text is escaped (Renderer.text)
RECURSIVE MdInline(_)
MdRender(cs, t) ==
    IF t.kind = "double_emphasis"
    THEN "<strong>" \o MdInline(SubSeq(cs, t.lo, t.hi)) \o "</strong>"
    ELSE IF t.kind = "emphasis"
    THEN "<em>" \o MdInline(SubSeq(cs, t.lo, t.hi)) \o "</em>"
    ELSE IF t.kind = "linebreak" THEN "<br>\n"
    ELSE MdEscape(SubSeq(cs, t.lo, t.hi))
MdTokens(cs) == Orbit(LAMBDA t : MdTokenAt(cs, t.next), MdTokenAt(cs, 1), Len(cs))
MdOutput(cs, toks) == Join([n \in DOMAIN toks |-> MdRender(cs, toks[n])])
MdInline(cs) ==
    With(RStrip(cs, {"\n"}),
         LAMBDA v : IF Len(v) = 0 THEN "" ELSE With(MdTokens(v), LAMBDA toks : MdOutput(v, toks)))

\* Renderer.paragraph: the inline output without the spaces around it
Paragraph(text) ==
    With(Chars(text),
         LAMBDA cs : "<p>" \o SubSeq(text, RunEnd(cs, 1, {" "}), RunStart(cs, Len(cs), {" "}))
                     \o "</p>\n")

\* the last index of the line that starts at p, p - 1 for an empty line
LineEnd(cs, p) == Until(cs, p, {"\n"}) - 1

\* BlockGrammar.nptable, ^ *(\S.*\|.*)\n *([-:]+ *\|[-| :]*)\n, and
\* BlockGrammar.table, ^ *\|(.+)\n *\|( *[-:]+[-| :]*)\n: the header line ends
\* at e, its spaces end at f; the line under it ends at b, and d is the end of
\* the run of - and : that follows its spaces (and its | in a table)
PipeLine == {"-", "|", ":", " "}
NpTableHeader(cs, e, f) ==
    f <= e /\ cs[f] \notin Whitespace /\ Find(cs, f + 1, "|") \in (f + 1)..e
NpTableAlign(cs, b, s, d) ==
    /\ d > s
    /\ RunEnd(cs, d, {" "}) <= b
    /\ cs[RunEnd(cs, d, {" "})] = "|"
    /\ RunEnd(cs, RunEnd(cs, d, {" "}) + 1, PipeLine) > b
TableHeader(cs, e, f) == f < e /\ cs[f] = "|"
TableAlign(cs, b, s, t) ==
    /\ s <= b
    /\ cs[s] = "|"
    /\ RunEnd(cs, t, {"-", ":"}) > t
    /\ RunEnd(cs, RunEnd(cs, t, {"-", ":"}), PipeLine) > b

\* the rows of a table, ((?:.*\|.*(?:\n|$))*) and ((?: *\|.*(?:\n|$))*): the
\* lines after the two that have a | (nptable), that start with one (table);
\* MdRowsEnd is where the first line starts that is none, from the line at r on
MdRowLine(cs, l, np) ==
    IF np THEN Find(cs, l, "|") \in l..LineEnd(cs, l)
    ELSE RunEnd(cs, l, {" "}) <= Len(cs) /\ cs[RunEnd(cs, l, {" "})] = "|"
MdRowsStop(cs, l, np) == l > Len(cs) \/ (cs[l - 1] = "\n" /\ ~MdRowLine(cs, l, np))
MdRowsEnd(cs, r, np) ==
    First({l \in r..Min(r + 15, Len(cs) + 1) : MdRowsStop(cs, l, np)},
          {l \in (r + 16)..(Len(cs) + 1) : MdRowsStop(cs, l, np)})

\* BlockLexer.parse at p, where a block starts, with the rules newline,
\* nptable, table and paragraph in their order.  A paragraph is cs[lo .. hi],
\* it ends in front of the next blank line; a table has its header in
\* cs[lo .. hi], the line under it in cs[a .. b] and its rows in cs[r .. q]
\* (nl: a newline ends the last row).  The next block starts at next, after
\* the newlines that follow.
MdBlock(kind, lo, hi, a, b, r, q, nl, next) ==
    [kind |-> kind, lo |-> lo, hi |-> hi, a |-> a, b |-> b, r |-> r, q |-> q, nl |-> nl,
     next |-> next]
MdParagraphEnd(cs, p) ==
    IF FindPair(cs, p, "\n", "\n") = 0 THEN Len(cs) ELSE FindPair(cs, p, "\n", "\n") - 1
MdParagraphAt(cs, p, hi) ==
    MdBlock("paragraph", p, hi, 0, 0, 0, 0, FALSE, RunEnd(cs, hi + 1, {"\n"}))
MdTableTo(cs, kind, lo, hi, a, b, stop) ==
    MdBlock(kind, lo, hi, a, b, b + 2, IF stop > Len(cs) THEN Len(cs) ELSE stop - 2,
            stop <= Len(cs) /\ stop > b + 2, RunEnd(cs, stop, {"\n"}))
MdTableAt(cs, p, e, f, b, s) ==
    IF b >= Len(cs) THEN MdParagraphAt(cs, p, MdParagraphEnd(cs, p))
    ELSE IF NpTableHeader(cs, e, f) /\ NpTableAlign(cs, b, s, RunEnd(cs, s, {"-", ":"}))
    THEN MdTableTo(cs, "nptable", f, e, s, b, MdRowsEnd(cs, b + 2, TRUE))
    ELSE IF TableHeader(cs, e, f) /\ TableAlign(cs, b, s, RunEnd(cs, s + 1, {" "}))
    THEN MdTableTo(cs, "table", f + 1, e, s + 1, b, MdRowsEnd(cs, b + 2, FALSE))
    ELSE MdParagraphAt(cs, p, MdParagraphEnd(cs, p))
MdBlockAt(cs, p) ==
    With(LineEnd(cs, p),
         LAMBDA e : IF e >= Len(cs) THEN MdParagraphAt(cs, p, Len(cs))
                    ELSE MdTableAt(cs, p, e, RunEnd(cs, p, {" "}), LineEnd(cs, e + 2),
                                   RunEnd(cs, e + 2, {" "})))

\* what the re.sub calls of _process_table, parse_table and parse_nptable
\* leave.  HeaderStrip, re.sub(r'^ *| *\| *$', '', header): the spaces at the
\* start go, and the | the text ends with, with the spaces around it.
\* RowStrip, re.sub(r'^ *\| *| *\| *$', '', v): the same with a | at the start.
\* TrailStrip, re.sub(r'(?: *\| *)?\n$', '', cells) on the last row.
PipeEnd(v, lead) ==
    With(RunStart(v, Len(v), {" "}),
         LAMBDA k : IF k >= lead /\ v[k] = "|"
                    THEN SubSeq(v, lead, Max(lead - 1, RunStart(v, k - 1, {" "})))
                    ELSE SubSeq(v, lead, Len(v)))
HeaderStrip(v) == PipeEnd(v, RunEnd(v, 1, {" "}))
RowStrip(v) ==
    With(RunEnd(v, 1, {" "}),
         LAMBDA f : IF f <= Len(v) /\ v[f] = "|" THEN PipeEnd(v, RunEnd(v, f + 1, {" "}))
                    ELSE PipeEnd(v, 1))
TrailStrip(v) == PipeEnd(v, 1)

\* re.split(r' *\| *', v) and re.split(r' *(?<!\\)\| *', v): the pieces of v
\* between its | (between those no backslash precedes), without the spaces
\* next to a |
MdPiece(pieces, n) ==
    With(IF n > 1 THEN LStrip(pieces[n], {" "}) ELSE pieces[n],
         LAMBDA piece : IF n < Len(pieces) THEN RStrip(piece, {" "}) ELSE piece)
SplitPipes(v, escapes) ==
    With(SplitAt(v, SelectSeq(Indices(v),
                              LAMBDA k : v[k] = "|" /\ ~(escapes /\ k > 1 /\ v[k - 1] = "\\"))),
         LAMBDA pieces : [n \in DOMAIN pieces |-> MdPiece(pieces, n)])

\* _process_cells: re.sub('\\\\\|', '|', cell), a backslash in front of a |
\* goes
UnescapePipes(v) ==
    Keep(v, SelectSeq(Indices(v), LAMBDA k : ~(v[k] = "\\" /\ k < Len(v) /\ v[k + 1] = "|")))

\* _process_table, the alignments: the line under the header without its
\* spaces (re.sub(r' *|\| *$', '', align)) and without the | at its end, split
\* at its |; a piece -+: is right, :-+: center, :-+ left, any other None
AlignOf(v) ==
    With(SelectSeq(v, LAMBDA c : c = "-"),
         LAMBDA dashes :
             IF Len(dashes) = 0 THEN None
             ELSE IF v = dashes \o <<":">> THEN "right"
             ELSE IF v = <<":">> \o dashes \o <<":">> THEN "center"
             ELSE IF v = <<":">> \o dashes THEN "left"
             ELSE None)
MdAligns(line) ==
    With(SelectSeq(line, LAMBDA c : c # " "),
         LAMBDA v : With(SplitPipes(IF Len(v) > 0 /\ v[Len(v)] = "|"
                                    THEN SubSeq(v, 1, Len(v) - 1) ELSE v, FALSE),
                         LAMBDA pieces : [n \in DOMAIN pieces |-> AlignOf(pieces[n])]))

\* parse_nptable and parse_table: the rows of the table t, each the texts of
\* its cells
MdRowTexts(cs, t) ==
    With(Split(SubSeq(cs, t.r, t.q), "\n"),
         LAMBDA rows : IF t.kind = "nptable" THEN rows
                       ELSE [n \in DOMAIN rows |->
                                RowStrip(IF n = Len(rows) /\ t.nl THEN TrailStrip(rows[n])
                                         ELSE rows[n])])
MdCells(v) ==
    With(SplitPipes(v, TRUE), LAMBDA cells : [n \in DOMAIN cells |-> UnescapePipes(cells[n])])
MdRows(cs, t) ==
    With(MdRowTexts(cs, t),
         LAMBDA rows : <<SplitPipes(HeaderStrip(SubSeq(cs, t.lo, t.hi)), FALSE)>>
                       \o [n \in DOMAIN rows |-> MdCells(rows[n])])

\* Renderer.table_cell, Renderer.table_row and Renderer.table, as
\* Markdown.output_table calls them: the cells of the first row are th, the
\* others td; a cell has the alignment of its column if the line under the
\* header gives one
TableCell(content, tag, align) ==
    IF align = None THEN "<" \o tag \o ">" \o content \o "</" \o tag \o ">\n"
    ELSE "<" \o tag \o " style=\"text-align:" \o align \o "\">" \o content
         \o "</" \o tag \o ">\n"
TableRow(cells, tag, aligns) ==
    "<tr>\n"
    \o Join([j \in DOMAIN cells |->
                TableCell(MdInline(cells[j]), tag,
                          IF j <= Len(aligns) THEN aligns[j] ELSE None)])
    \o "</tr>\n"
Table(rows, aligns) ==
    With([n \in DOMAIN rows |-> TableRow(rows[n], IF n = 1 THEN "th" ELSE "td", aligns)],
         LAMBDA out : "<table>\n<thead>" \o out[1] \o "</thead>\n<tbody>\n"
                      \o Join(Tail(out)) \o "</tbody>\n</table>\n")

\* Markdown.output: the blocks of the text, each rendered
MdBlockOutput(cs, t) ==
    IF t.kind = "paragraph" THEN Paragraph(MdInline(SubSeq(cs, t.lo, t.hi)))
    ELSE Table(MdRows(cs, t), MdAligns(SubSeq(cs, t.a, t.b)))
MdBlocks(cs) ==
    IF Len(cs) = 0 THEN ""
    ELSE With(Orbit(LAMBDA t : MdBlockAt(cs, t.next), MdBlockAt(cs, RunEnd(cs, 1, {"\n"})),
                    Len(cs)),
              LAMBDA toks : Join([n \in DOMAIN toks |-> MdBlockOutput(cs, toks[n])]))

\* MarkdownRenderer.render (mistune 0.8, escape off, hard wrap on): the HTML
\* fragment of a Markdown text.  Modelled are mistune's preprocessing, the
\* paragraphs and tables, and the inline rules escape, double_emphasis,
\* emphasis, linebreak and text with its escaping of &, < and >.  The texts
\* are those without headings, rules, lists, quotes, code, links, footnotes,
\* bare URLs, strikethrough and HTML tags of their own.
MarkdownRender(markdown) ==
    With(Chars(markdown),
         LAMBDA cs : With(Preprocessing(cs),
                          LAMBDA text : With(RStrip(text, {"\n"}), LAMBDA body : MdBlocks(body))))

\* str.strip(), and re.sub(r"\s+", " ", data)
Strip(cs) == RStrip(LStrip(cs, Whitespace), Whitespace)
Collapse(cs) ==
    With(SelectSeq(Indices(cs),
                   LAMBDA j : cs[j] \notin Whitespace \/ j = 1 \/ cs[j - 1] \notin Whitespace),
         LAMBDA kept : <<>> \o [n \in DOMAIN kept |->
                                   IF cs[kept[n]] \in Whitespace THEN " " ELSE cs[kept[n]]])

\* n times the text s
Rep(s, n) == Join([j \in 1..n |-> s])

\* html2text.utils.escape_md_section on the characters of a piece of text:
\* a backslash before one of \*_{}[]()#+-.! is doubled, and at the start of
\* a line, after whitespace, the dot of "1. ", a "+ " and a "- " or "--" get
\* a backslash.  Before the character at j the text is at "ws" when only
\* whitespace was passed since the start of its line, at "num" when digits
\* follow that whitespace, at "no" otherwise.
HtSlashChars == {"\\", "*", "_", "{", "}", "[", "]", "(", ")", "#", "+", "-", ".", "!"}
HtNextIs(cs, j, S) == j + 1 <= Len(cs) /\ cs[j + 1] \in S
HtLineAt(cs, j) ==
    With(RunEnd(cs, RFind(cs, j - 1, {"\n"}) + 1, Whitespace),
         LAMBDA d : IF d >= j THEN "ws" ELSE IF RunEnd(cs, d, Digits) >= j THEN "num" ELSE "no")
HtEscapeAt(cs, j, at) ==
    IF cs[j] = "\\" /\ HtNextIs(cs, j, HtSlashChars) THEN "\\\\"
    ELSE IF cs[j] = "." /\ HtNextIs(cs, j, Whitespace) /\ at = "num" THEN "\\."
    ELSE IF cs[j] = "+" /\ HtNextIs(cs, j, Whitespace) /\ at = "ws" THEN "\\+"
    ELSE IF cs[j] = "-" /\ HtNextIs(cs, j, Whitespace \cup {"-"}) /\ at = "ws" THEN "\\-"
    ELSE cs[j]
EscapeMdSection(cs) ==
    With(cs, LAMBDA v : Join([j \in DOMAIN v |-> HtEscapeAt(v, j, HtLineAt(v, j))]))

\* the placeholder html2text writes for &nbsp; while it collects the text
\* (config.UNIFIABLE["nbsp"]); finish() turns it into a space
NbspPlaceHolder == "&nbsp_place_holder;"

\* the HTML2Text object before feed: nothing written (out), start set, no
\* paragraph break (p_p) or space due, no abbreviation open (abbr_title and
\* abbr_data are <<>> for None and hold the text otherwise) and none listed,
\* no quote open, no table under way
HtInit ==
    [out |-> "", quiet |-> 0, p_p |-> 0, space |-> FALSE, start |-> TRUE,
     stressed |-> FALSE, preceding_stressed |-> FALSE, preceding_data |-> "",
     current_tag |-> "", br_toggle |-> "", abbr_title |-> <<>>, abbr_data |-> <<>>,
     abbr_list |-> <<>>, quote |-> FALSE, split_next_td |-> FALSE, td_count |-> 0,
     table_start |-> FALSE]

\* self.lastWasNL, which outtextf keeps: the text written ends with a newline
LastWasNL(h) == h.out # "" /\ SubSeq(h.out, Len(h.out), Len(h.out)) = "\n"

\* HTML2Text.pbr, p and soft_br: the break that is due before the next text
Pbr(h) == [h EXCEPT !.p_p = IF @ = 0 THEN 1 ELSE @]
P(h) == [h EXCEPT !.p_p = 2]
SoftBr(h) == [Pbr(h) EXCEPT !.br_toggle = "  "]

\* HTML2Text.o from "if self.start" on: the first piece written drops the
\* break and the space that are due; at the end a newline is written; a due
\* paragraph break is p_p newlines, each after the two spaces of a soft
\* break; a due space is one space unless a newline was written last; at the
\* end the abbreviations follow, one to a line; then the data
OStart(h) ==
    IF h.start THEN [h EXCEPT !.space = FALSE, !.p_p = 0, !.start = FALSE] ELSE h
OEnd(h, force) ==
    IF force THEN [h EXCEPT !.p_p = 0, !.out = @ \o "\n", !.space = FALSE] ELSE h
OBreak(h) ==
    IF h.p_p # 0
    THEN [h EXCEPT !.out = @ \o Rep(h.br_toggle \o "\n", h.p_p), !.space = FALSE,
                   !.br_toggle = ""]
    ELSE h
OSpace(h) ==
    IF h.space
    THEN [h EXCEPT !.out = IF LastWasNL(h) THEN @ ELSE @ \o " ", !.space = FALSE]
    ELSE h
AbbrLine(a) == "  *[" \o a.abbr \o "]: " \o a.definition \o "\n"
OAbbr(h, force) ==
    IF force /\ Len(h.abbr_list) > 0
    THEN [h EXCEPT !.out = @ \o Join([n \in DOMAIN h.abbr_list |-> AbbrLine(h.abbr_list[n])])]
    ELSE h
OWrite(h, d, force) ==
    IF Len(d) = 0 /\ ~force THEN h
    ELSE [OAbbr(OSpace(OBreak(OEnd(OStart(h), force))), force)
             EXCEPT !.p_p = 0, !.out = @ \o Join(d)]

\* HTML2Text.o(data, puredata, force): the data is added to the text of an
\* open abbreviation; nothing is written while quiet; pure data has its
\* whitespace runs collapsed, and a leading space becomes the due space
OPure(h, cs, force) ==
    IF Len(cs) > 0 /\ cs[1] = " "
    THEN OWrite([h EXCEPT !.space = TRUE], Tail(cs), force)
    ELSE OWrite(h, cs, force)
OQuiet(h, data, puredata, force) ==
    IF h.quiet # 0 THEN h
    ELSE IF puredata THEN With(Collapse(Chars(data)), LAMBDA cs : OPure(h, cs, force))
    ELSE With(Chars(data), LAMBDA cs : OWrite(h, cs, force))
O(h, data, puredata, force) ==
    IF h.abbr_data = <<>> THEN OQuiet(h, data, puredata, force)
    ELSE OQuiet([h EXCEPT !.abbr_data = <<@[1] \o data>>], data, puredata, force)

\* html2text.utils.hn: the level of a heading tag, 0 for any other tag
Hn(tag) ==
    IF Len(tag) = 2 /\ SubSeq(tag, 1, 1) = "h" /\ SubSeq(tag, 2, 2) \in (Digits \ {"0"})
    THEN CHOOSE n \in 1..9 : ToString(n) = SubSeq(tag, 2, 2)
    ELSE 0

\* HTML2Text.handle_data: the text after a start of emphasis is stripped, the
\* text after its end gets a space in front unless it starts with
\* whitespace or one of .!?; then the Markdown characters are escaped
\* (not for an entity) and the text is written as pure data
HtStress(h, data) ==
    IF h.stressed THEN Strip(data)
    ELSE IF h.preceding_stressed /\ data[1] \notin (Whitespace \cup {".", "!", "?"})
            /\ Hn(h.current_tag) = 0 /\ h.current_tag \notin {"a", "code", "pre"}
    THEN <<" ">> \o data
    ELSE data
HandleData(h, data, entity_char) ==
    IF Len(data) = 0 THEN h
    ELSE With(IF entity_char THEN Join(HtStress(h, data))
              ELSE EscapeMdSection(HtStress(h, data)),
              LAMBDA text : O([h EXCEPT !.stressed = FALSE, !.preceding_stressed = h.stressed,
                                         !.preceding_data = text],
                                text, TRUE, FALSE))

\* no_preceding_space in handle_tag: the text handled last ends in a
\* character that is not whitespace
NoPrecedingSpace(h) ==
    /\ h.preceding_data # ""
    /\ SubSeq(h.preceding_data, Len(h.preceding_data), Len(h.preceding_data)) \notin Whitespace

\* the mark html2text writes for an emphasis tag, "" for another tag
HtMark(tag) ==
    IF tag \in {"em", "i", "u"} THEN "_"
    ELSE IF tag \in {"strong", "b"} THEN "**"
    ELSE IF tag \in {"del", "strike", "s"} THEN "~~"
    ELSE ""

\* self.abbr_list[abbr] = definition: a dict keeps the place of a key it has
AbbrPut(list, abbr, definition) ==
    IF \E n \in DOMAIN list : list[n].abbr = abbr
    THEN [n \in DOMAIN list |->
             IF list[n].abbr = abbr THEN [abbr |-> abbr, definition |-> definition]
             ELSE list[n]]
    ELSE Append(list, [abbr |-> abbr, definition |-> definition])

\* HTML2Text.handle_tag.  A tag takes one branch of it at most: a heading,
\* p and div, br, hr, the quiet tags head, style and script, body, an
\* emphasis tag, abbr (title is <<>> without a title attribute, else holds
\* its value), q, a tag of the definition list or of the table.  TagBefore is
\* what the branch sets before it writes, TagText what it writes with o()
\* ("" where it writes nothing), TagAfter what it sets after.
TagAbbr(h, start, title) ==
    IF start THEN [h EXCEPT !.abbr_title = title, !.abbr_data = <<"">>]
    ELSE [h EXCEPT !.abbr_list = IF h.abbr_title # <<>>
                                 THEN AbbrPut(@, h.abbr_data[1], h.abbr_title[1])
                                 ELSE @,
                   !.abbr_title = <<>>, !.abbr_data = <<>>]
TagBefore(h, tag, start, title) ==
    IF Hn(tag) # 0 \/ tag \in {"p", "div"} \/ (tag \in {"hr", "dl"} /\ start) THEN P(h)
    ELSE IF tag \in {"head", "style", "script"}
    THEN [h EXCEPT !.quiet = IF start THEN @ + 1 ELSE @ - 1]
    ELSE IF tag = "body" THEN [h EXCEPT !.quiet = 0]
    ELSE IF tag = "abbr" THEN TagAbbr(h, start, title)
    ELSE IF tag \in {"dt", "dd"} /\ ~start THEN Pbr(h)
    ELSE IF tag = "table" /\ start THEN [h EXCEPT !.table_start = TRUE]
    ELSE IF tag = "tr" /\ start THEN [h EXCEPT !.td_count = 0]
    ELSE IF tag = "tr" THEN SoftBr([h EXCEPT !.split_next_td = FALSE])
    ELSE h
TableUnderline(n) == Join([j \in 1..n |-> IF j = 1 THEN "---" ELSE "|---"])
TagText(h, tag, start) ==
    IF Hn(tag) # 0 THEN (IF start THEN Rep("#", Hn(tag)) \o " " ELSE "")
    ELSE IF tag = "br" /\ start THEN "  \n"
    ELSE IF tag = "hr" /\ start THEN "* * *"
    ELSE IF HtMark(tag) # ""
    THEN (IF start /\ NoPrecedingSpace(h) THEN " " ELSE "") \o HtMark(tag)
    ELSE IF tag = "q" THEN "\""
    ELSE IF tag = "dd" /\ start THEN "    "
    ELSE IF tag \in {"td", "th"} /\ start /\ h.split_next_td THEN "| "
    ELSE IF tag = "tr" /\ ~start /\ h.table_start THEN TableUnderline(h.td_count)
    ELSE ""
TagAfter(h, tag, start) ==
    IF tag = "hr" /\ start THEN P(h)
    ELSE IF HtMark(tag) # "" /\ start THEN [h EXCEPT !.stressed = TRUE]
    ELSE IF tag = "q" THEN [h EXCEPT !.quote = ~@]
    ELSE IF tag \in {"td", "th"} /\ start
    THEN [h EXCEPT !.split_next_td = TRUE, !.td_count = @ + 1]
    ELSE IF tag = "tr" /\ ~start /\ h.table_start
    THEN [SoftBr(h) EXCEPT !.table_start = FALSE]
    ELSE h
HandleTag(h, tag, start, title) ==
    With(TagBefore([h EXCEPT !.current_tag = tag], tag, start, title),
         LAMBDA b : TagAfter(O(b, TagText(b, tag, start), FALSE, FALSE), tag, start))

\* HTML2Text.entityref: the text an entity stands for, for the entities the
\* model's documents hold; a name HTML does not know stays as it is written
HtEntities ==
    [n \in {"amp", "lt", "gt", "quot", "apos", "nbsp"} |->
        IF n = "amp" THEN "&"
        ELSE IF n = "lt" THEN "<"
        ELSE IF n = "gt" THEN ">"
        ELSE IF n = "quot" THEN "\""
        ELSE IF n = "nbsp" THEN NbspPlaceHolder
        ELSE "'"]
EntityRef(name) ==
    IF name \in DOMAIN HtEntities THEN HtEntities[name] ELSE "&" \o name \o ";"

\* HTML2Text.charref: the character whose code the digits of a character
\* reference give, decimal or after an x hexadecimal, for the codes of ASCII
\* that a text of the model holds (AsciiChars holds the characters 32 to 95
\* and 97 to 126 in their order; a code is counted up to AsciiEnd)
AsciiChars ==
    " !\"#$%&'()*+,-./0123456789:;<=>?@ABCDEFGHIJKLMNOPQRSTUVWXYZ[\\]^_abcdefghijklmnopqrstuvwxyz{|}~"
HexValues == "0123456789abcdef"
AsciiEnd == 127
DigitValue(c) == (CHOOSE j \in 1..16 : <<SubSeq(HexValues, j, j)>> = Lower(c)) - 1
CharRefCode(ds, base) ==
    FoldSeq(LAMBDA a, c : Min(a * base + DigitValue(c), AsciiEnd), ds, 0, 1, Len(ds))
Chr(c, name) ==
    IF c \in 32..95 THEN SubSeq(AsciiChars, c - 31, c - 31)
    ELSE IF c \in 97..126 THEN SubSeq(AsciiChars, c - 32, c - 32)
    ELSE IF c = 9 THEN "\t"
    ELSE IF c = 10 THEN "\n"
    ELSE IF c = 12 THEN "\f"
    ELSE IF c = 13 THEN "\r"
    ELSE "&#" \o name \o ";"
CharRef(name) ==
    With(Chars(name),
         LAMBDA cs : IF cs[1] \in {"x", "X"} THEN Chr(CharRefCode(Tail(cs), 16), name)
                     ELSE Chr(CharRefCode(cs, 10), name))

\* HTMLParser.goahead at p in the characters of the document: what it hands
\* to the HTML2Text object next.  A token is text (kind "data", cs[lo .. hi]),
\* a reference ("entity" or "charref", its name), a start tag, an end tag or
\* a tag that is both (name, and title for the title attribute of an
\* <abbr>), or what is skipped: a comment, a declaration, a processing
\* instruction; the next token starts at next.  cdata is the element whose
\* content is being read as text, script or style, up to its end tag.  pass
\* counts the calls of
\* goahead: handle() makes three, feed(data), feed("") and close(), and a
\* call ends where the parser cannot go on; only the last call, which has
\* end set, takes what is left unfinished for text.  At pass 4 the last call
\* is over and what is left is text.
HtToken(kind, lo, hi, name, next, cdata, pass, title) ==
    [kind |-> kind, lo |-> lo, hi |-> hi, name |-> name, next |-> next, cdata |-> cdata,
     pass |-> pass, title |-> title]
HtData(lo, hi, cdata, pass) == HtToken("data", lo, hi, "", hi + 1, cdata, pass, <<>>)
HtSkip(lo, hi, cdata, pass) == HtToken("skip", lo, hi, "", hi + 1, cdata, pass, <<>>)

\* goahead with end set, at a < that opens nothing whole: the text up to and
\* with the next >, else up to the next <, else the < alone
HtUnclosed(cs, p) ==
    With(Find(cs, p + 1, ">"),
         LAMBDA g : IF g # 0 THEN HtData(p, g, None, 3)
                    ELSE With(Find(cs, p + 1, "<"),
                              LAMBDA l : HtData(p, IF l # 0 THEN l - 1 ELSE p, None, 3)))

\* the characters that end the name of a tag (tagfind_tolerant), those of the
\* name of an end tag (endtagfind) and of an entity (entityref), and the
\* hexadecimal digits
TagNameStop == AsciiWhitespace \cup {"/", ">"}
EndTagNameChars == Letters \cup Digits \cup {"-", ".", ":", "_"}
EntityNameChars == Letters \cup Digits \cup {"-", "."}
HexDigits == Digits \cup {"a", "b", "c", "d", "e", "f", "A", "B", "C", "D", "E", "F"}

\* tag.lower() of the characters cs[lo .. hi]
LowerName(cs, lo, hi) == Join([j \in 1..(hi - lo + 1) |-> Join(Lower(cs[lo + j - 1]))])

\* (?:\s|/(?!>))* from k on: the index after the whitespace and the slashes,
\* a slash before > left
SlashRun(cs, k) ==
    With(RunEnd(cs, k, Whitespace \cup {"/"}),
         LAMBDA e : IF e > k /\ e <= Len(cs) /\ cs[e] = ">" /\ cs[e - 1] = "/" THEN e - 1 ELSE e)

\* attrfind_tolerant at k: an attribute is its name cs[lo .. ne - 1] and its
\* value cs[vlo .. vhi] (vlo = 0 without a value), the next one starts at
\* next; where no attribute starts lo is 0 and at is the index reached.  A
\* value is quoted or bare; after a quote that does not close there is no
\* value.
HtAttr(lo, ne, vlo, vhi, at, next) ==
    [lo |-> lo, ne |-> ne, vlo |-> vlo, vhi |-> vhi, at |-> at, next |-> next]
HtAttrTo(lo, ne, vlo, vhi, next) == HtAttr(lo, ne, vlo, vhi, next, next)
HtValueAt(cs, lo, ne, v) ==
    IF v <= Len(cs) /\ cs[v] \in {"'", "\""}
    THEN With(Find(cs, v + 1, cs[v]),
              LAMBDA c : IF c = 0 THEN HtAttrTo(lo, ne, 0, 0, ne)
                         ELSE HtAttrTo(lo, ne, v + 1, c - 1, SlashRun(cs, c + 1)))
    ELSE With(Until(cs, v, Whitespace \cup {">"}),
              LAMBDA e : HtAttrTo(lo, ne, v, e - 1, SlashRun(cs, e)))
HtAttrName(cs, k, ne, e) ==
    IF e <= Len(cs) /\ cs[e] = "="
    THEN HtValueAt(cs, k, ne, RunEnd(cs, RunEnd(cs, e, {"="}), Whitespace))
    ELSE HtAttrTo(k, ne, 0, 0, SlashRun(cs, ne))
HtAttrAt(cs, k) ==
    IF /\ k <= Len(cs)
       /\ cs[k - 1] \in Whitespace \cup {"'", "\"", "/"}
       /\ cs[k] \notin Whitespace \cup {"/", ">"}
    THEN With(Until(cs, k + 1, Whitespace \cup {"/", "=", ">"}),
              LAMBDA ne : HtAttrName(cs, k, ne, RunEnd(cs, ne, Whitespace)))
    ELSE HtAttr(0, 0, 0, 0, k, Len(cs) + 1)
HtAttrs(cs, k) == OrbitAfter(LAMBDA t : HtAttrAt(cs, t.next), HtAttrTo(0, 0, 0, 0, k), Len(cs))

\* dict(attrs).get("title") for the attributes of a tag: the value of the
\* last title attribute, <<>> when there is none or it has no value
HtTitle(cs, attrs) ==
    With(SelectSeq(attrs, LAMBDA t : t.lo # 0 /\ LowerName(cs, t.lo, t.ne - 1) = "title"),
         LAMBDA ts : IF Len(ts) = 0 \/ ts[Len(ts)].vlo = 0 THEN <<>>
                     ELSE <<Join(SubSeq(cs, ts[Len(ts)].vlo, ts[Len(ts)].vhi))>>)

\* parse_starttag at the < at p: the name ends before ne, the attributes
\* follow, and the tag ends with the > at m, after a / for a tag that is
\* start and end; a tag that does not end so is not whole.  The content of
\* script and style is read as text.
HtStartTag(cs, p, m, ne, startend, attrs, pass) ==
    With(LowerName(cs, p + 1, ne - 1),
         LAMBDA name : HtToken(IF startend THEN "startend" ELSE "start", p, m, name, m + 1,
                               IF ~startend /\ name \in {"script", "style"} THEN name ELSE None,
                               pass, IF name = "abbr" THEN HtTitle(cs, attrs) ELSE <<>>))
HtStartTo(cs, p, ne, attrs, j, pass) ==
    IF j <= Len(cs) /\ cs[j] = ">" THEN HtStartTag(cs, p, j, ne, FALSE, attrs, pass)
    ELSE IF j < Len(cs) /\ cs[j] = "/" /\ cs[j + 1] = ">"
    THEN HtStartTag(cs, p, j + 1, ne, TRUE, attrs, pass)
    ELSE HtUnclosed(cs, p)
HtStartFrom(cs, p, ne, a, pass) ==
    IF a <= Len(cs) /\ cs[a] = ">" THEN HtStartTag(cs, p, a, ne, cs[a - 1] = "/", <<>>, pass)
    ELSE With(HtAttrs(cs, a),
              LAMBDA attrs : HtStartTo(cs, p, ne, attrs, attrs[Len(attrs)].at, pass))
HtStartAt(cs, p, pass) ==
    With(Until(cs, p + 1, TagNameStop),
         LAMBDA ne : HtStartFrom(cs, p, ne, RunEnd(cs, ne, Whitespace \cup {"/"}), pass))

\* parse_endtag at the </ at p, g the index of the next >: the name may
\* follow whitespace and be followed by it (endtagfind); else a name that
\* starts at once runs to the whitespace or slash (tagfind_tolerant); else
\* the tag is skipped like a comment
HtEndTag(cs, p, g, lo, hi, pass) ==
    HtToken("end", p, g, LowerName(cs, lo, hi), g + 1, None, pass, <<>>)
HtEndName(cs, p, g, s, pass) ==
    IF s < g /\ IsLetter(cs[s])
       /\ RunEnd(cs, RunEnd(cs, s + 1, EndTagNameChars), Whitespace) = g
    THEN HtEndTag(cs, p, g, s, RunEnd(cs, s + 1, EndTagNameChars) - 1, pass)
    ELSE IF IsLetter(cs[p + 2])
    THEN HtEndTag(cs, p, g, p + 2, Until(cs, p + 2, TagNameStop) - 1, pass)
    ELSE HtSkip(p, g, None, pass)
HtEndAt(cs, p, g, pass) ==
    IF g = 0 THEN HtUnclosed(cs, p)
    ELSE HtEndName(cs, p, g, RunEnd(cs, p + 2, Whitespace), pass)

\* parse_comment: a comment ends with -- and, after whitespace or none, >
\* (the index of that >, 0 without one)
CommentCloses(cs, j) ==
    /\ j < Len(cs) /\ cs[j] = "-" /\ cs[j + 1] = "-"
    /\ With(RunEnd(cs, j + 2, Whitespace), LAMBDA g : g <= Len(cs) /\ cs[g] = ">")
CommentClose(cs, k) ==
    With(First({j \in k..Min(k + 15, Len(cs)) : CommentCloses(cs, j)},
               {j \in (k + 16)..Len(cs) : CommentCloses(cs, j)}),
         LAMBDA j : IF j = 0 THEN 0 ELSE RunEnd(cs, j + 2, Whitespace))

\* a comment, declaration or processing instruction that opens at p and
\* ends with the > at m; without an end it is not whole
HtSkipTo(cs, p, m, pass) ==
    IF m = 0 THEN HtUnclosed(cs, p) ELSE HtSkip(p, m, None, pass)
HtMarkupAt(cs, p, pass) ==
    IF p < Len(cs) /\ IsLetter(cs[p + 1]) THEN HtStartAt(cs, p, pass)
    ELSE IF p < Len(cs) /\ cs[p + 1] = "/" THEN HtEndAt(cs, p, Find(cs, p + 2, ">"), pass)
    ELSE IF StartsWith(cs, p, Chars("<!--")) THEN HtSkipTo(cs, p, CommentClose(cs, p + 4), pass)
    ELSE IF p < Len(cs) /\ cs[p + 1] \in {"!", "?"} THEN HtSkipTo(cs, p, Find(cs, p + 2, ">"), pass)
    ELSE HtData(p, p, None, pass)

\* the character reference that opens with the &# at p: decimal digits, or
\* x and hexadecimal digits, and then a character that is no hexadecimal
\* digit, which belongs to the reference if it is a ; (d is where the digits
\* end).  Where there is none the &# is text and the call of goahead ends if
\* a ; follows somewhere, and all that is left is text if none does.
HtCharRefAt(cs, p, d, pass) ==
    IF d <= Len(cs) /\ d > (IF cs[p + 2] \in {"x", "X"} THEN p + 3 ELSE p + 2)
       /\ cs[d] \notin HexDigits
    THEN HtToken("charref", p, d - 1, Join(SubSeq(cs, p + 2, d - 1)),
                 IF cs[d] = ";" THEN d + 1 ELSE d, None, pass, <<>>)
    ELSE IF Find(cs, p, ";") # 0 THEN HtData(p, p + 1, None, pass + 1)
    ELSE HtData(p, Len(cs), None, 3)

\* the entity that opens with the & at p: its name is a letter and then
\* letters, digits, - and ., as many as leave a character that ends it (e is
\* where they end, t the character that ends the name), and that character
\* belongs to the reference if it is a ; .  A name that runs to the end of
\* the document is text with the &, but of "&x" at the end only the x.
HtEntityTo(cs, p, t, pass) ==
    IF t > p
    THEN HtToken("entity", p, t - 1, Join(SubSeq(cs, p + 1, t - 1)),
                 IF cs[t] = ";" THEN t + 1 ELSE t, None, pass, <<>>)
    ELSE HtData(IF Len(cs) = p + 1 THEN p + 1 ELSE p, Len(cs), None, 3)
HtEntityAt(cs, p, e, pass) ==
    HtEntityTo(cs, p, IF e <= Len(cs) THEN e ELSE RFind(cs, Len(cs), {"-", ".", "&"}), pass)
HtRefAt(cs, p, pass) ==
    IF p + 1 < Len(cs) /\ cs[p + 1] = "#"
    THEN HtCharRefAt(cs, p, RunEnd(cs, IF cs[p + 2] \in {"x", "X"} THEN p + 3 ELSE p + 2,
                                     IF cs[p + 2] \in {"x", "X"} THEN HexDigits ELSE Digits),
                     pass)
    ELSE IF p < Len(cs) /\ cs[p + 1] = "#" THEN HtData(p, Len(cs), None, 3)
    ELSE IF p < Len(cs) /\ IsLetter(cs[p + 1])
    THEN HtEntityAt(cs, p, RunEnd(cs, p + 2, EntityNameChars), pass)
    ELSE HtData(p, p, None, pass)

\* set_cdata_mode: inside script or style only the end tag of the element
\* counts, </ and > around its name in either case, whitespace allowed
\* (CdataCloses is the index of its >, 0 where none starts); the text before
\* it is handed on, and without it the rest of the document is never handed
\* on
CdataNamed(cs, s, cdata) ==
    /\ s + Len(cdata) - 1 <= Len(cs)
    /\ \A j \in 1..Len(cdata) : Lower(cs[s + j - 1]) = <<SubSeq(cdata, j, j)>>
CdataCloses(cs, j, cdata) ==
    IF j < Len(cs) /\ cs[j] = "<" /\ cs[j + 1] = "/"
    THEN With(RunEnd(cs, j + 2, Whitespace),
              LAMBDA s : IF CdataNamed(cs, s, cdata)
                         THEN With(RunEnd(cs, s + Len(cdata), Whitespace),
                                   LAMBDA g : IF g <= Len(cs) /\ cs[g] = ">" THEN g ELSE 0)
                         ELSE 0)
    ELSE 0
CdataEnd(cs, k, cdata) ==
    First({j \in k..Min(k + 15, Len(cs)) : CdataCloses(cs, j, cdata) # 0},
          {j \in (k + 16)..Len(cs) : CdataCloses(cs, j, cdata) # 0})
HtCdataAt(cs, p, cdata, m, pass) ==
    IF m = 0 THEN HtSkip(p, Len(cs), cdata, pass)
    ELSE IF m = p
    THEN HtToken("end", p, CdataCloses(cs, p, cdata), cdata, CdataCloses(cs, p, cdata) + 1,
                 None, pass, <<>>)
    ELSE HtData(p, m - 1, cdata, pass)
HtTokenAt(cs, p, cdata, pass) ==
    IF pass > 3 THEN HtData(p, Len(cs), None, pass)
    ELSE IF cdata # None THEN HtCdataAt(cs, p, cdata, CdataEnd(cs, p, cdata), pass)
    ELSE IF cs[p] = "<" THEN HtMarkupAt(cs, p, pass)
    ELSE IF cs[p] = "&" THEN HtRefAt(cs, p, pass)
    ELSE HtData(p, Until(cs, p, {"<", "&"}) - 1, None, pass)
HtTokens(cs) ==
    OrbitAfter(LAMBDA t : HtTokenAt(cs, t.next, t.cdata, t.pass), HtSkip(1, 0, None, 1), Len(cs))

\* the handler HTMLParser calls for a token: handle_data, handle_entityref
\* and handle_charref, which hand the text of the reference to handle_data,
\* handle_starttag and handle_endtag, and handle_startendtag, which calls the
\* two in turn
HtText(cs, t) ==
    IF t.kind = "data" THEN SubSeq(cs, t.lo, t.hi)
    ELSE IF t.kind = "entity" THEN Chars(EntityRef(t.name))
    ELSE Chars(CharRef(t.name))
HtHandle(cs, h, t) ==
    IF t.kind \in {"data", "entity", "charref"} THEN HandleData(h, HtText(cs, t), t.kind # "data")
    ELSE IF t.kind \in {"start", "startend", "end"}
    THEN FoldSeq(LAMBDA a, start : HandleTag(a, t.name, start, IF start THEN t.title ELSE <<>>),
                 IF t.kind = "startend" THEN <<TRUE, FALSE>> ELSE <<t.kind = "start">>,
                 h, 1, IF t.kind = "startend" THEN 2 ELSE 1)
    ELSE h

\* HTMLParser.feed and close: the tokens of the document handled in turn, h
\* the HTML2Text object before
HtFeed(cs, h) ==
    IF Len(cs) = 0 THEN h
    ELSE With(HtTokens(cs),
              LAMBDA toks : FoldSeq(LAMBDA a, t : HtHandle(cs, a, t), toks, h, 1, Len(toks)))

\* outtext.replace("&nbsp_place_holder;", " ") on the characters of outtext
Unplace(cs) ==
    With(SelectSeq(Indices(cs),
                   LAMBDA j : cs[j] = "&" /\ StartsWith(cs, j, Chars(NbspPlaceHolder))),
         LAMBDA at : IF Len(at) = 0 THEN cs
                     ELSE With(SelectSeq(Indices(cs),
                                         LAMBDA j : \A n \in DOMAIN at :
                                                       j <= at[n] \/ j >= at[n] + Len(NbspPlaceHolder)),
                               LAMBDA kept : <<>> \o [n \in DOMAIN kept |->
                                                         IF cs[kept[n]] = "&"
                                                            /\ \E m \in DOMAIN at : at[m] = kept[n]
                                                         THEN " " ELSE cs[kept[n]]]))

\* HTML2Text.finish: pbr() and o("", force="end"); the characters of the
\* text written, each placeholder a space
Finish(h) == Unplace(Chars(O(Pbr(h), "", FALSE, TRUE).out))

\* html2text.utils.skipwrap with wrap_links on and wrap_list_items off: a
\* paragraph that is not wrapped (code, or what looks like a list item)
SkipWrapStripped(s) ==
    IF Len(s) > 2 /\ s[1] = "-" /\ s[2] = "-" /\ s[3] # "-" THEN FALSE
    ELSE IF Len(s) > 0 /\ s[1] \in {"-", "*"} /\ ~(Len(s) >= 2 /\ s[1] = "*" /\ s[2] = "*")
    THEN TRUE
    ELSE \/ /\ RunEnd(s, 1, Digits) > 1
            /\ RunEnd(s, 1, Digits) + 1 <= Len(s)
            /\ s[RunEnd(s, 1, Digits)] = "."
            /\ s[RunEnd(s, 1, Digits) + 1] \in Whitespace
         \/ Len(s) >= 2 /\ s[1] \in {"-", "*", "+"} /\ s[2] \in Whitespace
SkipWrap(para) ==
    \/ Len(para) >= 4 /\ SubSeq(para, 1, 4) = <<" ", " ", " ", " ">>
    \/ para[1] = "\t"
    \/ With(LStrip(para, Whitespace), LAMBDA s : SkipWrapStripped(s))

\* the width html2text wraps a paragraph to (config.BODY_WIDTH)
BodyWidth == 78

\* the indent optwrap gives the lines of a paragraph after its first: that
\* of a list item for a paragraph that starts with two spaces and the list
\* mark, that of a quote for one that starts with "> "
OptWrapIndent(para) ==
    IF StartsWith(para, 1, <<" ", " ", "*">>) THEN "    "
    ELSE IF StartsWith(para, 1, <<">", " ">>) THEN "> "
    ELSE ""

\* textwrap.wrap(para, width, break_long_words=False, subsequent_indent).
\* The whitespace of the paragraph becomes spaces (cs); its chunks are the
\* runs of spaces and of other characters, chunk n from starts[n] to ChunkEnd.
Munge(para) == <<>> \o [j \in DOMAIN para |-> IF para[j] \in AsciiWhitespace THEN " " ELSE para[j]]
WrapStarts(cs) ==
    SelectSeq(Indices(cs), LAMBDA j : j = 1 \/ (cs[j] = " ") # (cs[j - 1] = " "))
ChunkEnd(cs, starts, n) == IF n >= Len(starts) THEN Len(cs) ELSE starts[n + 1] - 1

\* how many of the chunks from chunk s on fit on a line of the width
WrapFit(cs, starts, s, width) ==
    Cardinality({e \in s..Min(s + width, Len(starts)) :
                    ChunkEnd(cs, starts, e) - starts[s] + 1 <= width})

\* a line of textwrap.wrap: once a line was made (any) a chunk of spaces at
\* its start is dropped and the indent takes its share of the width; the
\* line takes the chunks from s on that fit, at least one, to chunk e, and a
\* chunk of spaces at its end is dropped.  The line is cs[lo .. hi], after
\* the indent if indented, and the next one starts with chunk next.
WrapLineTo(cs, starts, s, e, any) ==
    With(ChunkEnd(cs, starts, IF cs[starts[e]] = " " THEN e - 1 ELSE e),
         LAMBDA hi : [lo |-> starts[s], hi |-> hi, next |-> e + 1, indented |-> any,
                      any |-> any \/ hi >= starts[s]])
WrapLineAt(cs, starts, n, any, indent) ==
    With(IF any /\ cs[starts[n]] = " " THEN n + 1 ELSE n,
         LAMBDA s : IF s > Len(starts)
                    THEN [lo |-> 1, hi |-> 0, next |-> s, indented |-> any, any |-> any]
                    ELSE WrapLineTo(cs, starts, s,
                                    s - 1 + Max(1, WrapFit(cs, starts, s,
                                                           BodyWidth - (IF any THEN Len(indent) ELSE 0))),
                                    any))
WrapLines(cs, starts, indent) ==
    OrbitAfter(LAMBDA t : WrapLineAt(cs, starts, t.next, t.any, indent),
          [lo |-> 1, hi |-> 0, next |-> 1, indented |-> FALSE, any |-> FALSE], Len(starts))

\* "\n".join(wrap(para, width, subsequent_indent=indent)): the lines that
\* are not empty
Wrap(cs, starts, indent) ==
    With(SelectSeq(WrapLines(cs, starts, indent), LAMBDA t : t.hi >= t.lo),
         LAMBDA lines : Join([n \in DOMAIN lines |->
                                 (IF n = 1 THEN "" ELSE "\n")
                                 \o (IF lines[n].indented THEN indent ELSE "")
                                 \o Join(SubSeq(cs, lines[n].lo, lines[n].hi))]))

\* para.endswith("  "), and config.RE_SPACE.match(para)
EndsWithBreak(para) ==
    Len(para) >= 2 /\ para[Len(para)] = " " /\ para[Len(para) - 1] = " "
MatchesReSpace(para) == Len(para) >= 2 /\ para[1] \in Whitespace /\ para[2] = "+"

\* HTML2Text.optwrap, a line of the text written: it is wrapped and ends a
\* paragraph (a blank line after it, none after an indented one), or ends
\* with the line break of a <br> (two spaces); of the empty lines at most
\* two newlines in a row stay (newlines counts them)
OptWrapEnd(para) ==
    IF EndsWithBreak(para) THEN "  \n"
    ELSE IF OptWrapIndent(para) # "" THEN "\n"
    ELSE "\n\n"
OptWrapPara(para) ==
    IF SkipWrap(para) THEN (IF MatchesReSpace(para) THEN "" ELSE Join(para) \o "\n")
    ELSE With(Munge(para),
              LAMBDA cs : With(WrapStarts(cs),
                               LAMBDA starts : Wrap(cs, starts, OptWrapIndent(para))))
         \o OptWrapEnd(para)
OptWrapNewlines(para, newlines) ==
    IF SkipWrap(para) THEN (IF MatchesReSpace(para) THEN newlines ELSE 1)
    ELSE IF OptWrapEnd(para) = "\n\n" THEN 2 ELSE 1
OptWrapLine(r, para) ==
    IF Len(para) = 0
    THEN [result |-> r.result \o (IF r.newlines < 2 THEN "\n" ELSE ""),
          newlines |-> IF r.newlines < 2 THEN r.newlines + 1 ELSE r.newlines]
    ELSE [result |-> r.result \o OptWrapPara(para),
          newlines |-> OptWrapNewlines(para, r.newlines)]
OptWrap(paras) ==
    FoldSeq(OptWrapLine, paras, [result |-> "", newlines |-> 0], 1, Len(paras)).result

\* HTML2Text.feed, before the parser is fed: data.replace of the end tag of
\* script as a script writes it in two pieces, by the end tag of ignore
FeedReplaced == <<"<", "/", "'", " ", "+", " ", "'", "s", "c", "r", "i", "p", "t", ">">>
FeedReplacement == <<"<", "/", "i", "g", "n", "o", "r", "e", ">">>
FeedReplace(cs) ==
    With(SelectSeq(Indices(cs), LAMBDA j : cs[j] = "<" /\ StartsWith(cs, j, FeedReplaced)),
         LAMBDA at :
             IF at = <<>> THEN cs
             ELSE Concat([n \in 1..(Len(at) + 1) |->
                     (IF n = 1 THEN <<>> ELSE FeedReplacement)
                     \o SubSeq(cs, IF n = 1 THEN 1 ELSE at[n - 1] + Len(FeedReplaced),
                                   IF n > Len(at) THEN Len(cs) ELSE at[n] - 1)]))

\* html2text.HTML2Text().handle (html2text 2020.1, on html.parser of Python
\* 3.11): feed, finish, optwrap.  Modelled are the parser's splitting of the
\* document into text, references and tags with their attributes, the
\* writing of text (whitespace, paragraph breaks, the quiet content of head,
\* style and script), headings, p, div, br, hr, the emphasis tags, abbr, q,
\* dl, dt and dd, the tables, the escaping of Markdown characters and the
\* wrapping of lines; an <img> is ignored and every other tag is dropped.
\* The documents are those without a, blockquote, ul, ol, li, pre, kbd, code
\* and tt, with no entity of HTML other than those of HtEntities, no character
\* reference but to a character of AsciiChars, no marked section (<![), every quote that opens
\* an attribute value closed, no & in the title of an abbr, and no
\* hyphenated word on a line that is wrapped.
Html2Text(html) ==
    With(FeedReplace(Chars(html)),
         LAMBDA cs : With(Finish(HtFeed(cs, HtInit)),
                          LAMBDA text : With(Split(text, "\n"), LAMBDA paras : OptWrap(paras))))

\* bulk_mailer.utils.merge_dicts(x, y), as the front-matter splitter uses it:
\* the metadata x merged over the base context y, x's keys taking precedence.
\* The module bulk_mailer.utils is not among the sources; the keys and values
\* of the dict returned are those the specification gives (4.2).
MergeDicts(x, y) ==
    [k \in (DOMAIN x) \cup (DOMAIN y) |-> IF k \in DOMAIN x THEN x[k] ELSE y[k]]

\* a front-matter value that YAML does not load as a string (null, a
\* number, a bool, a list): s is the text the loaded value prints as
NonStr(s) == [kind |-> "nonstr", s |-> s]

\* isinstance(metadata[key], str)
IsStr(value) == \A j \in DOMAIN value : value[j].kind # "nonstr"

\* the dict frontmatter.parse loads from the metadata block: a key written
\* twice keeps its place and has the value written last
YamlLoad(meta) ==
    LET firsts == SelectSeq([j \in DOMAIN meta |-> j],
                            LAMBDA j : \A k \in 1..(j - 1) : meta[k].key # meta[j].key)
    IN  [n \in DOMAIN firsts |->
            [key |-> meta[firsts[n]].key,
             value |-> meta[SetMax({k \in DOMAIN meta :
                                      meta[k].key = meta[firsts[n]].key})].value]]

\* the loop over metadata.keys(), from the from-th key of the loaded dict on:
\* each string value rendered against the base context, any other value left
\* as the value it is; the first error ends it
RECURSIVE RenderMetadata(_, _, _)
RenderMetadata(meta, from, context) ==
    LET loaded == YamlLoad(meta)
    IN  IF from > Len(loaded) THEN Ok(EmptyDict)
        ELSE LET r == IF IsStr(loaded[from].value)
                      THEN JinjaRender(loaded[from].value, context)
                      ELSE Ok(PyValue(loaded[from].value[1].s))
             IN  IF ~r.ok THEN r
                 ELSE LET rest == RenderMetadata(meta, from + 1, context)
                      IN  IF ~rest.ok THEN rest
                          ELSE Ok(Put(rest.val, loaded[from].key, r.val))

\* the splitter without the aliasing of sender from "from"
AliasSender_None(metadata) == metadata

\* if "from" in metadata and "sender" not in metadata
AliasSender(metadata) ==
    IF "from" \in DOMAIN metadata /\ "sender" \notin DOMAIN metadata
    THEN Put(metadata, "sender", metadata["from"])
    ELSE metadata

\* the splitter with the arguments of merge_dicts exchanged: the base context
\* merged over the metadata
SeparateContentAndMetadata_ContextFirst(template, context) ==
    IF ~template.present THEN Ok([content |-> <<>>, context |-> context])
    ELSE LET m == RenderMetadata(template.meta, 1, context)
         IN  IF ~m.ok THEN m
             ELSE Ok([content |-> template.body,
                      context |-> MergeDicts(context, AliasSender(m.val))])

\* EMailGenerator._separate_content_and_metadata: (content, extended_context)
SeparateContentAndMetadata(template, context) ==
    IF ~template.present THEN Ok([content |-> <<>>, context |-> context])
    ELSE LET m == RenderMetadata(template.meta, 1, context)
         IN  IF ~m.ok THEN m
             ELSE Ok([content |-> template.body,
                      context |-> MergeDicts(AliasSender(m.val), context)])

-----------------------------------------------------------------------------
(* The message assembler: EMailGenerator.generate *)

\* html_template or DEFAULTHTML_TEMPLATE, inside the classmethod: the bare
\* name is looked up as a global of the module, which defines none (the
\* class attribute would be cls.DEFAULTHTML_TEMPLATE)
HtmlOrDefault(html_template) ==
    IF html_template.present THEN Ok(html_template)
    ELSE Raise("NameError: name 'DEFAULTHTML_TEMPLATE' is not defined")

\* which dict merge_dicts(x, y) returns is open, its code not being among the
\* sources: one that is not y, y left as it was ("new": a new dict, or the
\* metadata x updated in place, which no caller holds), or y itself, which it
\* has updated in place ("argument")
MergeDictsResults == {"new", "argument"}

\* the splitter returns the very dict it was given, not another one: by its
\* first return statement, and by its last when merge_dicts returned its
\* second argument
SplitterReturnsArgument(template) == ~template.present \/ merge_dicts = "argument"

\* the result r of a stage of generate, together with the caller's record as
\* the stage leaves it
Leaving(record, r) ==
    IF r.ok THEN [ok |-> TRUE, val |-> r.val, record |-> record]
    ELSE [ok |-> FALSE, err |-> r.err, record |-> record]

\* generate, "render markdown content": the extended context and the HTML
\* template the next stage uses.  generate works on a copy of the caller's
\* record, but with a Markdown template it hands the record itself to the
\* splitter, rebinds extended_context to the dict the splitter returned and
\* writes "content" into that dict, which is the caller's when the splitter
\* returned its argument.
MarkdownStage(markdown_template, html_template, context) ==
    IF ~markdown_template.present
    THEN Leaving(context, Ok([context |-> context, html_template |-> html_template]))
    ELSE LET sep == SeparateContentAndMetadata(markdown_template, context)
             shared == SplitterReturnsArgument(markdown_template)
         IN  IF ~sep.ok THEN Leaving(context, sep)
             ELSE LET r == JinjaRender(sep.val.content, sep.val.context)
                  IN  IF ~r.ok THEN Leaving(IF shared THEN sep.val.context ELSE context, r)
                      ELSE With(Put(sep.val.context, "content", MarkdownRender(r.val)),
                                LAMBDA extended_context :
                                    LET h == HtmlOrDefault(html_template)
                                    IN  Leaving(IF shared THEN extended_context ELSE context,
                                                IF ~h.ok THEN h
                                                ELSE Ok([context |-> extended_context,
                                                         html_template |-> h.val])))

\* the caller's record after "render html content", m being what the
\* Markdown stage returned: the splitter is given extended_context, which is
\* the copy of the record without a Markdown template, and the record itself
\* when the Markdown stage got it back from the splitter
RecordAfterHtmlStage(markdown_template, m) ==
    LET sep == SeparateContentAndMetadata(m.val.html_template, m.val.context)
    IN  IF /\ markdown_template.present /\ SplitterReturnsArgument(markdown_template)
           /\ m.val.html_template.present /\ sep.ok
           /\ SplitterReturnsArgument(m.val.html_template)
        THEN sep.val.context
        ELSE m.record

\* the caller's record after the plaintext stage, which hands the record to
\* the splitter once more
RecordAfterPlaintextStage(plaintext_template, context) ==
    LET sep == SeparateContentAndMetadata(plaintext_template, context)
    IN  IF plaintext_template.present /\ sep.ok /\ SplitterReturnsArgument(plaintext_template)
        THEN sep.val.context
        ELSE context

\* generate, "render html content": the extended context and the HTML part
\* (None when html_content was never assigned)
HtmlStage(html_template, extended_context) ==
    IF ~html_template.present
    THEN Ok([context |-> extended_context, html_content |-> None])
    ELSE LET sep == SeparateContentAndMetadata(html_template, extended_context)
         IN  IF ~sep.ok THEN sep
             ELSE LET r == JinjaRender(sep.val.content, sep.val.context)
                  IN  IF ~r.ok THEN r
                      ELSE Ok([context |-> sep.val.context, html_content |-> r.val])

\* the plaintext part rendered against the context the Markdown and HTML
\* stages extended
PlaintextStage_Extended(plaintext_template, context, extended_context, html_content) ==
    IF plaintext_template.present
    THEN LET sep == SeparateContentAndMetadata(plaintext_template, extended_context)
         IN  IF ~sep.ok THEN sep
             ELSE LET r == JinjaRender(sep.val.content, sep.val.context)
                  IN  IF ~r.ok THEN r
                      ELSE Ok([context |-> sep.val.context, plaintext_content |-> r.val])
    ELSE IF html_content = None
         THEN Raise("UnboundLocalError: html_content")
         ELSE Ok([context |-> extended_context,
                  plaintext_content |-> Html2Text(html_content)])

\* generate, the plaintext part: rendered from the plaintext template against
\* the original context, or derived from the HTML part
PlaintextStage(plaintext_template, context, extended_context, html_content) ==
    IF plaintext_template.present
    THEN LET sep == SeparateContentAndMetadata(plaintext_template, context)
         IN  IF ~sep.ok THEN sep
             ELSE LET r == JinjaRender(sep.val.content, sep.val.context)
                  IN  IF ~r.ok THEN r
                      ELSE Ok([context |-> sep.val.context, plaintext_content |-> r.val])
    ELSE IF html_content = None
         THEN Raise("UnboundLocalError: html_content")
         ELSE Ok([context |-> extended_context,
                  plaintext_content |-> Html2Text(html_content)])

\* Envelope.to(recipient) as generate uses it: "" sets no recipient; with None
\* it is the getter, whose list has no .subject
EnvelopeTo(recipient) == IF recipient = "" THEN {} ELSE {recipient}

\* Envelope.subject(subject) as generate uses it: with None it is the
\* getter and sets no subject
EnvelopeSubject(subject) == IF subject = None THEN "" ELSE subject

\* the sender check with the test dropped
MissingSender_Never(sender) == FALSE

\* generate, "if not sender"
MissingSender(sender) == ~Truthy(sender)

\* generate, from the reads of sender, recipient and subject to the return
Assemble(plaintext_template, context, html) ==
    LET sender0 == Get(html.context, "sender", None)
        recipient0 == Get(html.context, "recipient", None)
        subject0 == Get(html.context, "subject", "")
        p == PlaintextStage(plaintext_template, context, html.context, html.html_content)
    IN  IF ~p.ok THEN p
        ELSE LET sender == Or(sender0, Get(p.val.context, "sender", None))
                 recipient == Or(recipient0, Get(p.val.context, "recipient", None))
                 subject == Or(subject0, Get(p.val.context, "subject", ""))
             IN  IF MissingSender(sender) THEN Raise("Exception: Missing sender")
                 ELSE IF recipient = None THEN Raise("AttributeError")
                 ELSE Ok([from |-> sender,
                          to |-> EnvelopeTo(recipient),
                          subject |-> EnvelopeSubject(subject),
                          html |-> html.html_content,
                          plain |-> p.val.plaintext_content])

\* EMailGenerator.generate: what the call returns or raises (out), and the
\* caller's record as the call leaves it (record)
GenerateCall(plaintext_template, markdown_template, html_template, context) ==
    With(MarkdownStage(markdown_template, html_template, context),
         LAMBDA m :
             IF ~m.ok THEN [out |-> Raise(m.err), record |-> m.record]
             ELSE With(RecordAfterHtmlStage(markdown_template, m),
                       LAMBDA record :
                           LET h == HtmlStage(m.val.html_template, m.val.context)
                           IN  IF ~h.ok THEN [out |-> h, record |-> record]
                               ELSE [out |-> Assemble(plaintext_template, record, h.val),
                                     record |-> RecordAfterPlaintextStage(plaintext_template,
                                                                          record)]))

\* EMailGenerator.generate: the envelope, or the exception raised
Generate(plaintext_template, markdown_template, html_template, context) ==
    GenerateCall(plaintext_template, markdown_template, html_template, context).out

-----------------------------------------------------------------------------
(* BulkMailer: the object and its configuration methods *)

\* self._smtp before smtp() is called
NoSmtp == [configured |-> FALSE, host |-> None, port |-> 0, user |-> None,
           password |-> None, security |-> None]

\* BulkMailer.__init__.  _test_email_set is None until test_mail sets it; None
\* and the empty set are both false where the code tests it, and both are {}
\* here.
NewBulkMailer ==
    [sender |-> None, subject |-> None, smtp |-> NoSmtp, csv_input |-> None,
     html_template |-> EmptyTemplate, plaintext_template |-> EmptyTemplate,
     markdown_template |-> EmptyTemplate,
     gpg_encrypt |-> FALSE, gpg_key |-> None, gpg_passphrase |-> None,
     gpg_sign |-> FALSE,
     test_count |-> None, test_email_set |-> {}, dry_run |-> FALSE]

\* the assertions of BulkMailer.smtp
SmtpArgsOk(host, port, security) ==
    /\ host # None
    /\ 0 < port /\ port < 65535
    /\ security \in {None, "tls", "starttls"}

\* the default of smtp's port parameter
SmtpMethodPortDefault == 25

\* BulkMailer.smtp
SetSmtp(obj, host, port, user, password, security) ==
    [obj EXCEPT !.smtp = [configured |-> TRUE, host |-> host, port |-> port,
                          user |-> user, password |-> password,
                          security |-> security]]

\* BulkMailer.sender(email), email not None
SetSender(obj, email) == [obj EXCEPT !.sender = email]

\* BulkMailer.subject(subject), subject not None
SetSubject(obj, subject) == [obj EXCEPT !.subject = subject]

\* the assertion of BulkMailer.csv_input on skip_rows
CsvInputArgsOk(skip_rows) == skip_rows >= 0

\* BulkMailer.csv_input(path, delimiter, skip_rows, clear), its assertions
\* passed; rows is what
\* csv.reader yields for the file at path with that delimiter.  Without a
\* path (None) it is the getter, which still replaces a missing or cleared
\* list by the empty list.
CsvInput(obj, path, rows, skip_rows, clear) ==
    LET cur == IF obj.csv_input = None \/ obj.csv_input = <<>> \/ clear
               THEN <<>> ELSE obj.csv_input
    IN  IF path = None THEN [obj EXCEPT !.csv_input = cur]
        ELSE [obj EXCEPT !.csv_input =
                 Append(cur, [path |-> path, rows |-> rows, skip_rows |-> skip_rows])]

\* the path argument of a template method: the path (None: not given) and
\* the text read_file returns for it
NoPath == [path |-> None, text |-> EmptyTemplate]
File(path, text) == [path |-> path, text |-> text]

\* BulkMailer.plaintext_template / markdown_template / html_template, called
\* with content or path given: a non-empty content is stored; otherwise the
\* text of the file at a non-empty path is, whatever it is; otherwise the
\* call is the getter.  content = EmptyTemplate is a content of None or "".
SetPlaintextTemplate(obj, content, path) ==
    IF content.present THEN [obj EXCEPT !.plaintext_template = content]
    ELSE IF Truthy(path.path) THEN [obj EXCEPT !.plaintext_template = path.text]
    ELSE obj
SetMarkdownTemplate(obj, content, path) ==
    IF content.present THEN [obj EXCEPT !.markdown_template = content]
    ELSE IF Truthy(path.path) THEN [obj EXCEPT !.markdown_template = path.text]
    ELSE obj
SetHtmlTemplate(obj, content, path) ==
    IF content.present THEN [obj EXCEPT !.html_template = content]
    ELSE IF Truthy(path.path) THEN [obj EXCEPT !.html_template = path.text]
    ELSE obj

\* BulkMailer.gpg_sign
SetGpgSign(obj, sign, key, passphrase) ==
    [obj EXCEPT !.gpg_sign = sign, !.gpg_key = key, !.gpg_passphrase = passphrase]

\* BulkMailer.gpg_encrypt
SetGpgEncrypt(obj, encrypt) == [obj EXCEPT !.gpg_encrypt = encrypt]

\* BulkMailer.dry_run
SetDryRun(obj, b) == [obj EXCEPT !.dry_run = b]

\* BulkMailer._parse_addresses: the set of the non-empty addresses
ParseAddresses(emails) == {a \in Range(emails) : a # ""}

\* BulkMailer.test_mail(email, count), email not None
SetTestMail(obj, emails, count) ==
    [obj EXCEPT !.test_email_set = ParseAddresses(emails), !.test_count = count]

-----------------------------------------------------------------------------
(* BulkMailer.send and BulkMailer._send_mail *)

\* one call on the envelope collaborator, for the record with index rec
Call(op, rec, msg, outcome) == [op |-> op, rec |-> rec, msg |-> msg, outcome |-> outcome]

\* what envelope.send() can do: return, or raise one of these; the user's
\* interrupt reaches the program as a KeyboardInterrupt raised while it waits
SendOutcomes == {"ok", "SMTPAuthenticationError", "SMTPServerDisconnected", "Exception",
                 "KeyboardInterrupt"}

\* the exception _send_mail ends with for an outcome of envelope.send(): the
\* two smtplib handlers read err.self, which no exception has
SendError(outcome) ==
    IF outcome \in {"SMTPAuthenticationError", "SMTPServerDisconnected"}
    THEN "AttributeError" ELSE outcome

\* _send_mail without its "if not self._dry_run"
SendMail_IgnoresDryRun(obj, msg, rec, outcome) ==
    IF ~obj.smtp.configured THEN [calls |-> <<>>, err |-> "TypeError"]
    ELSE [calls |-> <<Call("smtp", rec, msg, "ok"), Call("send", rec, msg, outcome)>>,
          err |-> IF outcome = "ok" THEN None ELSE outcome]

\* BulkMailer._send_mail: the collaborator calls it makes and the exception it
\* raises (None: it returns)
SendMail(obj, msg, rec, outcome) ==
    IF obj.dry_run THEN [calls |-> <<>>, err |-> None]
    ELSE IF ~obj.smtp.configured THEN [calls |-> <<>>, err |-> "TypeError"]
    ELSE [calls |-> <<Call("smtp", rec, msg, "ok")>>
                    \o (IF obj.gpg_sign THEN <<Call("signature", rec, msg, "ok")>> ELSE <<>>)
                    \o (IF obj.gpg_encrypt THEN <<Call("encryption", rec, msg, "ok")>> ELSE <<>>)
                    \o <<Call("send", rec, msg, outcome)>>,
          err |-> IF outcome = "ok" THEN None ELSE SendError(outcome)]

\* TestMode with the bound off by one: i <= self._test_count
TestMode_OffByOne(obj, idx) ==
    IF obj.test_email_set = {} THEN "send"
    ELSE IF idx <= obj.test_count THEN "test"
    ELSE "return"

\* send, "if self._test_email_set": "send" the envelope as it is, "test" with
\* the recipients replaced, "return" to leave send
TestMode(obj, idx) ==
    IF obj.test_email_set = {} THEN "send"
    ELSE IF idx < obj.test_count THEN "test"
    ELSE "return"

\* envelope.recipients(clear=True).to(list(self._test_email_set))
OverrideRecipients(msg, obj) == [msg EXCEPT !.to = obj.test_email_set]

\* send with the exception caught and logged, the run ending as if complete
Propagate_Swallowed(e) == [pc |-> "done", err |-> None]

\* where send goes after an exception e: nothing in send catches it
Propagate(e) == [pc |-> "failed", err |-> e]

-----------------------------------------------------------------------------
(* The inputs of the model *)

\* the most CSV sources configured, and the largest test count
MaxSources == 2
MaxTestCount == 2

Cell_Name == <<"N","a","m","e">>
Cell_EMail == <<"E","-","M","a","i","l">>
Cell_to == <<"t","o">>
Cell_sender == <<"s","e","n","d","e","r">>
Cell_1 == <<"1">>
Cell_Ann == <<"A","n","n">>
Cell_Bob == <<"B","o","b">>
Cell_a == <<"a","@","x">>
Cell_b == <<"b","@","x">>
Cell_c == <<"c","@","x">>
Cell_empty == <<>>

\* Name;E-Mail with two complete rows
RowsGood == << <<Cell_Name, Cell_EMail>>, <<Cell_Ann, Cell_a>>, <<Cell_Bob, Cell_b>> >>
\* to;Name where the first row ends before the Name column and the second
\* row's address cell is empty
RowsShort == << <<Cell_to, Cell_Name>>, <<Cell_c>>, <<Cell_empty, Cell_Bob>> >>
\* Name;E-Mail where the second data row ends before the E-Mail column
RowsTruncated == << <<Cell_Name, Cell_EMail>>, <<Cell_Ann, Cell_a>>, <<Cell_Bob>> >>
\* a header cell that normalises to the empty identifier
RowsBadHeader == << <<Cell_1, Cell_EMail>>, <<Cell_Ann, Cell_a>> >>

\* the CSV sources of the runs explored: (path, rows, skip_rows)
CsvPool ==
    { [path |-> "good.csv", rows |-> RowsGood, skip_rows |-> 0],
      [path |-> "short.csv", rows |-> RowsShort, skip_rows |-> 0],
      [path |-> "truncated.csv", rows |-> RowsTruncated, skip_rows |-> 0],
      [path |-> "badheader.csv", rows |-> RowsBadHeader, skip_rows |-> 0] }

SenderPool == {None, "x@y"}
\* the delays send is called with: seconds, negative included
DelayPool == {-1, 0}
SmtpHostPool == {None, "localhost"}
TestEmailPool == { <<>>, <<"t@x">> }

MarkdownPool ==
    { EmptyTemplate,
      Template(<< [key |-> "from", value |-> <<Lit("m@x")>>] >>,
               <<Lit("Dear **"), Var("name"), Lit("**")>>) }
HtmlPool ==
    { EmptyTemplate,
      Template(<<>>, <<Lit("<div>"), Var("to"), Lit("</div>")>>) }

\* the lists of at most n sources of a pool
SourceLists(pool, n) == UNION {[1..k -> pool] : k \in 0..n}

\* csv_input called once for each source of srcs, in order
RECURSIVE WithCsvInputs(_, _)
WithCsvInputs(obj, srcs) ==
    IF srcs = <<>> THEN obj
    ELSE WithCsvInputs(CsvInput(obj, Head(srcs).path, Head(srcs).rows,
                                   Head(srcs).skip_rows, FALSE),
                       Tail(srcs))

\* the calls of csv_input without a path a caller may add
CsvGetterCalls == {"none", "get", "clear"}

\* a BulkMailer configured by a caller of the library, who calls the builder
\* methods in turn, each only if it has something to set (None, FALSE, empty:
\* not called): csv_input for each source and then perhaps without a path,
\* the templates by content, smtp(host, security="tls") with the defaults of
\* its other parameters
Configured(host, sender, subject, srcs, getter, pt, md, html, sign, encrypt, dry, emails, count) ==
    LET o0 == WithCsvInputs(NewBulkMailer, srcs)
        o1 == IF getter = "none" THEN o0
              ELSE CsvInput(o0, None, <<>>, 0, getter = "clear")
        o2 == SetHtmlTemplate(
                  SetMarkdownTemplate(SetPlaintextTemplate(o1, pt, NoPath), md, NoPath),
                  html, NoPath)
        o3 == IF host = None THEN o2
              ELSE SetSmtp(o2, host, SmtpMethodPortDefault, None, None, "tls")
        o4 == IF sender = None THEN o3 ELSE SetSender(o3, sender)
        o5 == IF subject = None THEN o4 ELSE SetSubject(o4, subject)
        o6 == IF sign THEN SetGpgSign(o5, TRUE, None, None) ELSE o5
        o7 == IF encrypt THEN SetGpgEncrypt(o6, TRUE) ELSE o6
        o8 == IF emails = <<>> THEN o7 ELSE SetTestMail(o7, emails, count)
    IN  SetDryRun(o8, dry)

-----------------------------------------------------------------------------
(* The run: a caller has configured a BulkMailer and calls send *)

NoEnvelope == [from |-> None, to |-> {}, subject |-> "", html |-> None, plain |-> None]
NoProbe == [template |-> EmptyTemplate, context |-> EmptyDict, out |-> Raise(None)]
\* send called by a program other than the command line
NoArgs == EmptyDict

Init ==
    /\ \E host \in SmtpHostPool, sender \in SenderPool,
          srcs \in SourceLists(CsvPool, MaxSources), getter \in CsvGetterCalls,
          md \in MarkdownPool, html \in HtmlPool,
          sign \in BOOLEAN, encrypt \in BOOLEAN, dry \in BOOLEAN,
          emails \in TestEmailPool, count \in 0..MaxTestCount :
            /\ emails = <<>> => count = 0
            /\ getter # "none" => Len(srcs) <= 1
            /\ self = Configured(host, sender, None, srcs, getter, EmptyTemplate, md, html,
                                 sign, encrypt, dry, emails, count)
    /\ delay \in DelayPool
    /\ pc = "configured"
    /\ contexts = <<>>
    /\ i = 0
    /\ envelope = NoEnvelope
    /\ generated = <<>>
    /\ results = <<>>
    /\ calls = <<>>
    /\ err = None
    /\ probe = NoProbe
    /\ args = NoArgs
    /\ exit_code = None
    /\ merge_dicts \in MergeDictsResults
    /\ records = <<>>

\* send, up to the loop: contexts = self._create_context()
Send ==
    /\ pc = "configured"
    /\ \E r \in {CreateContext(self)} :
           IF r.ok
           THEN /\ contexts' = r.val
                /\ pc' = IF Len(r.val) = 0 THEN "done" ELSE "generate"
                /\ err' = err
           ELSE /\ pc' = Propagate(r.err).pc
                /\ err' = Propagate(r.err).err
                /\ contexts' = contexts
    /\ i' = 0
    /\ UNCHANGED <<self, envelope, generated, results, calls, probe, args, exit_code, delay, merge_dicts, records>>

\* the assignment of generate's result g: the envelope is bound, or the
\* exception leaves send
BindEnvelope(g) ==
    /\ results' = Append(results, g)
    /\ IF g.ok
       THEN /\ envelope' = g.val
            /\ pc' = "dispatch"
            /\ err' = err
       ELSE /\ pc' = Propagate(g.err).pc
            /\ err' = Propagate(g.err).err
            /\ envelope' = envelope

\* the loop body, first statement: envelope = EMailGenerator.generate(...)
GenerateStep ==
    /\ pc = "generate"
    /\ \E g \in {GenerateCall(self.plaintext_template, self.markdown_template,
                               self.html_template, contexts[i + 1])} :
          /\ BindEnvelope(g.out)
          /\ records' = Append(records, g.record)
    /\ generated' = Append(generated, i)
    /\ UNCHANGED <<self, contexts, i, calls, probe, args, exit_code, delay, merge_dicts>>

\* where the loop goes after the body for record idx returned
NextRecord(idx, n) == IF idx + 1 < n THEN "generate" ELSE "done"

\* the loop body, after generate: the test-recipient branch and _send_mail
Dispatch ==
    /\ pc = "dispatch"
    /\ LET mode == TestMode(self, i)
       IN  IF mode = "return"
           THEN /\ pc' = "done"
                /\ UNCHANGED <<envelope, calls, err>>
           ELSE \E outcome \in SendOutcomes :
                  LET msg == IF mode = "test" THEN OverrideRecipients(envelope, self)
                             ELSE envelope
                      sm == SendMail(self, msg, i, outcome)
                  IN  /\ envelope' = msg
                      /\ calls' = calls \o sm.calls
                      /\ IF sm.err = None
                         THEN /\ pc' = "sleep"
                              /\ err' = err
                         ELSE /\ pc' = Propagate(sm.err).pc
                              /\ err' = Propagate(sm.err).err
    /\ UNCHANGED <<self, contexts, i, generated, results, probe, args, exit_code, delay, merge_dicts, records>>

\* what time.sleep(d) can do: a negative d is a ValueError; otherwise it
\* returns, or the user's interrupt is raised while it waits
SleepOutcomes(d) == IF d < 0 THEN {"ValueError"} ELSE {"ok", "KeyboardInterrupt"}

\* the loop body, last statement: time.sleep(delay) returns and the loop goes
\* to the next record, or it raises and the exception leaves send
Sleep ==
    /\ pc = "sleep"
    /\ \E outcome \in SleepOutcomes(delay) :
          IF outcome = "ok"
          THEN /\ pc' = NextRecord(i, Len(contexts))
               /\ i' = i + 1
               /\ err' = err
          ELSE /\ pc' = Propagate(outcome).pc
               /\ err' = Propagate(outcome).err
               /\ i' = i
    /\ UNCHANGED <<self, contexts, envelope, generated, results, calls, probe, args,
                   exit_code, delay, merge_dicts, records>>

Next == Send \/ GenerateStep \/ Dispatch \/ Sleep

Spec == Init /\ [][Next]_vars

-----------------------------------------------------------------------------
(* The assembler and the front-matter splitter under a wider choice of      *)
(* templates and columns: the loop of send over the records of one source,  *)
(* and _separate_content_and_metadata applied to the inputs generate gives  *)
(* it.                                                                      *)

Cell_from == <<"f","r","o","m">>
Cell_s == <<"s","@","x">>

\* Name;E-Mail, the second row's address cell empty
RowsEmptyAddress == << <<Cell_Name, Cell_EMail>>, <<Cell_Ann, Cell_a>>, <<Cell_Bob, Cell_empty>> >>
\* E-Mail;Name;sender, the first row ending after the address
RowsSenderColumn == << <<Cell_EMail, Cell_Name, Cell_sender>>, <<Cell_c>>,
                       <<Cell_a, Cell_Ann, Cell_s>> >>
\* to;from;Name
RowsFromColumn == << <<Cell_to, Cell_from, Cell_Name>>, <<Cell_a, Cell_b, Cell_Ann>> >>

ProbeCsvPool ==
    { [path |-> "empty-address.csv", rows |-> RowsEmptyAddress, skip_rows |-> 0],
      [path |-> "sender-column.csv", rows |-> RowsSenderColumn, skip_rows |-> 0],
      [path |-> "from-column.csv", rows |-> RowsFromColumn, skip_rows |-> 0] }

ProbeSubjectPool == {None, "S"}

Meta1(k, v) == << [key |-> k, value |-> v] >>
Meta2(k1, v1, k2, v2) == << [key |-> k1, value |-> v1], [key |-> k2, value |-> v2] >>

BodyHi == <<Lit("Hi "), Var("name")>>
BodyDear == <<Lit("Dear **"), Var("name"), Lit("**")>>
BodyContent == <<Lit("<div>"), Var("content"), Lit("</div>")>>
BodyTo == <<Lit("<i>"), Var("to"), Lit("</i>")>>

ProbePlaintextPool ==
    { EmptyTemplate,
      Template(<<>>, BodyHi),
      Template(Meta1("from", <<Lit("p@x")>>), BodyHi),
      Template(<<>>, <<Lit("Re: "), Var("subject")>>),
      Template(Meta1("subject", <<Lit("Re "), Var("to")>>), <<Lit("Hello")>>) }

ProbeMarkdownPool ==
    { EmptyTemplate,
      Template(<<>>, BodyDear),
      Template(Meta1("from", <<Lit("m@x")>>), BodyDear),
      Template(Meta1("sender", <<Lit("ms@x")>>), <<Lit("News")>>),
      Template(Meta2("subject", <<Lit("News for "), Var("to")>>, "from", <<Lit("m@x")>>),
               <<Lit("News")>>) }

ProbeHtmlPool ==
    { EmptyTemplate,
      Template(<<>>, BodyContent),
      Template(<<>>, BodyTo),
      Template(<<>>, <<Lit("<p>"), Bad>>),
      Template(Meta1("from", <<Lit("h@x")>>), BodyTo),
      Template(Meta1("sender", <<Lit("hs@x")>>), BodyContent),
      Template(Meta1("from", <<Lit("")>>), BodyTo),
      Template(Meta2("from", <<Lit("h@x")>>, "sender", <<Lit("hs@x")>>), BodyTo),
      Template(Meta2("subject", <<Var("title")>>, "recipient", <<Lit("")>>), BodyTo),
      Template(Meta1("sender", <<NonStr("-0.0")>>), BodyTo) }

\* send after contexts = self._create_context() returned the records
ProbeInit ==
    /\ \E sender \in SenderPool, subject \in ProbeSubjectPool, src \in ProbeCsvPool,
          pt \in ProbePlaintextPool, md \in ProbeMarkdownPool, html \in ProbeHtmlPool :
            self = Configured("localhost", sender, subject, <<src>>, "none", pt, md, html,
                              FALSE, FALSE, FALSE, <<>>, 0)
    /\ delay = 0
    /\ contexts = CreateContext(self).val
    /\ pc = "generate"
    /\ i = 0
    /\ envelope = NoEnvelope
    /\ generated = <<>>
    /\ results = <<>>
    /\ calls = <<>>
    /\ err = None
    /\ probe = NoProbe
    /\ args = NoArgs
    /\ exit_code = None
    /\ merge_dicts \in MergeDictsResults
    /\ records = <<>>

\* the contexts generate passes to the splitter for a record: the record
\* itself, the context the Markdown stage extended, and the record as the
\* Markdown and HTML stages left it
SplitterContexts(obj, context) ==
    With(MarkdownStage(obj.markdown_template, obj.html_template, context),
         LAMBDA m : {context} \cup
                    (IF m.ok THEN {m.val.context, RecordAfterHtmlStage(obj.markdown_template, m)}
                     ELSE {}))

\* EMailGenerator._separate_content_and_metadata applied to one of the
\* templates and one of the contexts of the record generate is about to get
SplitProbe ==
    /\ pc = "generate"
    /\ \E c \in SplitterContexts(self, contexts[i + 1]) :
         \E t \in {self.plaintext_template, self.markdown_template, self.html_template} :
            /\ pc' = "split"
            /\ probe' = [template |-> t, context |-> c,
                         out |-> SeparateContentAndMetadata(t, c)]
            /\ UNCHANGED <<self, contexts, i, envelope, generated, results, calls, err,
                           args, exit_code, delay, merge_dicts, records>>

ProbeNext == GenerateStep \/ Dispatch \/ Sleep \/ SplitProbe

ProbeSpec == ProbeInit /\ [][ProbeNext]_vars

-----------------------------------------------------------------------------
(* The command line: main (src/bulk_mailer/cli.py), from the try statement  *)
(* to sys.exit.  A recipients list or template path of the command line is  *)
(* modelled by the content of the file it names.                            *)

\* the default of --smtp-port
SmtpPortDefault == 465

\* the security argument main passes to smtp()
CliSecurity(a) ==
    IF a.smtp_nossl THEN None ELSE IF a.smtp_starttls THEN "starttls" ELSE "tls"

\* the recipients lists of the command line, each with --csv-skip-rows
CliSources(a) ==
    [n \in DOMAIN a.recipients_list |->
        [a.recipients_list[n] EXCEPT !.skip_rows = a.csv_skip_rows]]

\* main, "input and template settings": csv_input for each recipients list,
\* whose assertion on skip_rows fails at the first one (there is at least
\* one); a template option names a file, args holds its path and the model
\* the text of the file with it
CliInputSettings(a) ==
    IF ~CsvInputArgsOk(a.csv_skip_rows) THEN Raise("AssertionError")
    ELSE LET o0 == WithCsvInputs(NewBulkMailer, CliSources(a))
             o1 == IF Truthy(a.plaintext_template.path)
                   THEN SetPlaintextTemplate(o0, EmptyTemplate, a.plaintext_template)
                   ELSE o0
             o2 == IF Truthy(a.markdown_template.path)
                   THEN SetMarkdownTemplate(o1, EmptyTemplate, a.markdown_template)
                   ELSE o1
         IN  Ok(IF Truthy(a.html_template.path)
                THEN SetHtmlTemplate(o2, EmptyTemplate, a.html_template) ELSE o2)

\* main, "SMTP settings": bulk_mailer.smtp(...), whose assertions may fail
CliSmtpSettings(obj, a) ==
    IF SmtpArgsOk(a.smtp_host, a.smtp_port, CliSecurity(a))
    THEN Ok(SetSmtp(obj, a.smtp_host, a.smtp_port, a.smtp_username,
                    a.smtp_password, CliSecurity(a)))
    ELSE Raise("AssertionError")

\* main, "mail settings"
CliMailSettings(obj, a) ==
    LET o1 == IF Truthy(a.sender) THEN SetSender(obj, a.sender) ELSE obj
    IN  IF Truthy(a.subject) THEN SetSubject(o1, a.subject) ELSE o1

\* main, "GPG settings"
CliGpgSettings(obj, a) ==
    LET o1 == IF a.gpg_sign THEN SetGpgSign(obj, TRUE, a.gpg_key, a.gpg_password)
              ELSE obj
    IN  IF a.gpg_encrypt THEN SetGpgEncrypt(o1, TRUE) ELSE o1

\* main, "test settings": test_mail asserts count >= 0
CliTestSettings(obj, a) ==
    IF ~Truthy(a.test_email) THEN Ok(SetDryRun(obj, a.dry_run))
    ELSE IF a.test_count < 0 THEN Raise("AssertionError")
    ELSE Ok(SetDryRun(SetTestMail(obj, <<a.test_email>>, a.test_count), a.dry_run))

\* main from the SMTP settings to bulk_mailer.dry_run(...), on the object
\* the input settings left
CliSettings(obj, a) ==
    LET s == CliSmtpSettings(obj, a)
    IN  IF ~s.ok THEN s
        ELSE CliTestSettings(CliGpgSettings(CliMailSettings(s.val, a), a), a)

\* main from bulk_mailer = BulkMailer() to bulk_mailer.dry_run(...): the
\* configured object, or the exception of the first call that fails
CliConfigure(a) ==
    LET inp == CliInputSettings(a)
    IN  IF ~inp.ok THEN inp ELSE CliSettings(inp.val, a)

\* main, "get missing arguments": the values asked for are those not given
\* (None), and only when the run is not a dry run
CliPrompts(a) ==
    IF a.dry_run THEN {}
    ELSE {k \in {"smtp_host", "smtp_username", "smtp_password"} : a[k] = None}

\* the prompt main is at or comes to next: host, then username, then
\* password; None when nothing is left to ask
CliNextPrompt(a) ==
    IF "smtp_host" \in CliPrompts(a) THEN "smtp_host"
    ELSE IF "smtp_username" \in CliPrompts(a) THEN "smtp_username"
    ELSE IF "smtp_password" \in CliPrompts(a) THEN "smtp_password"
    ELSE None

\* what the user types at each prompt
CliTyped == [smtp_host |-> "localhost", smtp_username |-> "u", smtp_password |-> "pw"]

\* the code main passes to sys.exit: 1 from either except clause, 0 after
\* the try statement
ExitCode(raised) == IF raised THEN 1 ELSE 0

CliHostPool == {None, "localhost"}
CliUserPool == {None, "u"}
CliTestEmailPool == {None, "t@x"}
\* --html-template: not given, or a file with an HTML template
CliHtmlPool ==
    {NoPath} \cup {File("body.html", t) : t \in HtmlPool \ {EmptyTemplate}}
CliCsvPool == {c \in CsvPool : c.path # "badheader.csv"}
\* --csv-skip-rows: any integer
CliSkipRowsPool == {-1, 0, 1}
\* the lists of 1 .. n sources: recipients_list has nargs='+'
CliSourceLists(pool, n) == {l \in SourceLists(pool, n) : l # <<>>}

\* main at the try statement, the command line parsed
CliInit ==
    /\ \E host \in CliHostPool, user \in CliUserPool, sender \in SenderPool,
          srcs \in CliSourceLists(CliCsvPool, MaxSources), html \in CliHtmlPool,
          dry \in BOOLEAN, email \in CliTestEmailPool, count \in 0..MaxTestCount,
          skip \in CliSkipRowsPool, d \in DelayPool :
            /\ email = None => count = 1
            /\ args = [recipients_list |-> srcs,
                       smtp_host |-> host, smtp_port |-> SmtpPortDefault,
                       smtp_username |-> user,
                       smtp_password |-> IF user = None THEN None ELSE "pw",
                       smtp_nossl |-> FALSE, smtp_starttls |-> FALSE,
                       sender |-> sender, subject |-> None,
                       html_template |-> html, markdown_template |-> NoPath,
                       plaintext_template |-> NoPath,
                       gpg_encrypt |-> FALSE, gpg_sign |-> FALSE,
                       gpg_key |-> None, gpg_password |-> None,
                       test_email |-> email, test_count |-> count,
                       csv_delimiter |-> ",", csv_skip_rows |-> skip,
                       delay |-> d, dry_run |-> dry]
    /\ delay = args.delay
    /\ self = NewBulkMailer
    /\ pc = "main"
    /\ contexts = <<>>
    /\ i = 0
    /\ envelope = NoEnvelope
    /\ generated = <<>>
    /\ results = <<>>
    /\ calls = <<>>
    /\ err = None
    /\ probe = NoProbe
    /\ exit_code = None
    /\ merge_dicts \in MergeDictsResults
    /\ records = <<>>

\* args with the answer v stored for prompt k
CliAnswered(a, k, v) == [a EXCEPT ![k] = v]

\* main, "get missing arguments", one call of input() or getpass(): the
\* answer is stored in args, or the call finds the standard input closed;
\* with nothing (left) to ask main goes on to the configuration
Prompt ==
    /\ pc = "main"
    /\ IF CliNextPrompt(args) = None
       THEN /\ args' = args
            /\ pc' = "configure"
            /\ err' = err
       ELSE \/ /\ args' = CliAnswered(args, CliNextPrompt(args),
                                       CliTyped[CliNextPrompt(args)])
               /\ pc' = IF CliNextPrompt(args') = None THEN "configure" ELSE "main"
               /\ err' = err
            \/ /\ args' = args
               /\ pc' = Propagate("EOFError").pc
               /\ err' = Propagate("EOFError").err
    /\ UNCHANGED <<self, contexts, i, envelope, generated, results, calls, probe, exit_code, delay, merge_dicts, records>>

\* main, the configuration of the BulkMailer
Configure ==
    /\ pc = "configure"
    /\ LET c == CliConfigure(args)
       IN  IF c.ok
           THEN /\ self' = c.val
                /\ pc' = "configured"
                /\ err' = err
           ELSE /\ self' = self
                /\ pc' = Propagate(c.err).pc
                /\ err' = Propagate(c.err).err
    /\ UNCHANGED <<contexts, i, envelope, generated, results, calls, probe, args, exit_code, delay, merge_dicts, records>>

\* the calls _send_mail makes on the envelope of record idx before
\* envelope.send(): none in a dry run, and none when the loop returns first
CallsBeforeSend(obj, msg, idx) ==
    IF TestMode(obj, idx) = "return" THEN <<>>
    ELSE SelectSeq(SendMail(obj, msg, idx, "ok").calls, LAMBDA c : c.op # "send")

\* where an interrupt can find the loop body of send after generate, as the
\* envelope and the calls made on it for the record idx: before the test
\* branch; in it, between recipients(clear=True) and to(...), the envelope
\* without a recipient; and after it or inside _send_mail, the recipients
\* replaced if they are, after envelope.smtp(), the signing or the encryption
\* and before envelope.send()
InterruptedDispatch(obj, msg, idx) ==
    LET mode == TestMode(obj, idx)
        sent == IF mode = "test" THEN OverrideRecipients(msg, obj) ELSE msg
        made == CallsBeforeSend(obj, sent, idx)
    IN  {[envelope |-> msg, calls |-> <<>>]}
        \cup (IF mode = "test" THEN {[envelope |-> [msg EXCEPT !.to = {}], calls |-> <<>>]}
              ELSE {})
        \cup (IF mode = "return" THEN {}
              ELSE {[envelope |-> sent, calls |-> SubSeq(made, 1, n)] : n \in 0..Len(made)})

\* the user interrupts the program.  Inside the try statement (at a prompt,
\* between two statements of main or of the loop of send, before time.sleep
\* is called, whatever the delay, or in the loop body after generate) the
\* KeyboardInterrupt goes to main's except clause.  After the try statement
\* and before sys.exit(0), or inside an except clause before sys.exit(1),
\* nothing catches it: it leaves main and no exit code is passed to sys.exit.
\* An interrupt that arrives inside envelope.send() is an outcome of Dispatch,
\* one inside time.sleep of Sleep.
Interrupt ==
    /\ pc \in {"main", "configure", "configured", "generate", "dispatch", "sleep",
               "done", "failed"}
    /\ \E at \in IF pc = "dispatch" THEN InterruptedDispatch(self, envelope, i)
                  ELSE {[envelope |-> envelope, calls |-> <<>>]} :
          /\ calls' = calls \o at.calls
          /\ envelope' = at.envelope
    /\ pc' = IF pc \in {"done", "failed"} THEN "interrupted"
             ELSE Propagate("KeyboardInterrupt").pc
    /\ err' = Propagate("KeyboardInterrupt").err
    /\ UNCHANGED <<self, contexts, i, generated, results, probe, args, exit_code, delay,
                   merge_dicts, records>>

\* main, the except clauses and the sys.exit after the try statement
Exit ==
    /\ pc \in {"done", "failed"}
    /\ exit_code' = ExitCode(pc = "failed")
    /\ pc' = "exited"
    /\ UNCHANGED <<self, contexts, i, envelope, generated, results, calls, err, probe, args, delay, merge_dicts, records>>

CliNext ==
    Prompt \/ Configure \/ Send \/ GenerateStep \/ Dispatch \/ Sleep \/ Interrupt \/ Exit

CliSpec == CliInit /\ [][CliNext]_vars

-----------------------------------------------------------------------------
(* Properties of the run *)

\* the messages handed to envelope.send(), in order
SendCalls == SelectSeq(calls, LAMBDA c : c.op = "send")

\* generate for the record with index k
GenerateOf(k) ==
    Generate(self.plaintext_template, self.markdown_template,
             self.html_template, contexts[k + 1])

\* C1: with a test recipient configured and test count N, the messages handed
\* to the transport are those of records 0, 1, ... in order, each below N and
\* each with its recipients replaced by exactly the test address set, so none
\* for a record with index >= N is ever handed over; and a run that is not a
\* dry run and ends without an error has handed over exactly
\* min(N, number of records) messages.
C1_TestRecipient ==
    self.test_email_set # {} =>
        /\ \A j \in DOMAIN SendCalls :
              /\ SendCalls[j].rec = j - 1
              /\ SendCalls[j].rec < self.test_count
              /\ GenerateOf(j - 1).ok
              /\ SendCalls[j].msg = [GenerateOf(j - 1).val EXCEPT !.to = self.test_email_set]
        /\ (pc = "done" /\ ~self.dry_run) =>
              Len(SendCalls) = Min(self.test_count, Len(contexts))

\* a finished test run with more records than the test count, whose message
\* went to the test address and not to the record's own
C1_Witness ==
    /\ pc = "done"
    /\ self.test_email_set = {"t@x"}
    /\ self.test_count = 1
    /\ Len(contexts) > 2
    /\ Len(SendCalls) = 1
    /\ contexts[1]["recipient"] = "a@x"
    /\ SendCalls[1].msg.to = {"t@x"}

\* the indexes 0 .. n-1 in order
Indexes(n) == [j \in 1..n |-> j - 1]

\* C2, as the specification states it: in a dry run nothing is ever called on
\* the transport collaborator, and send, when it ends without an error, has
\* run generate for every record.
C2_EveryRecordGenerated ==
    self.dry_run =>
        /\ calls = <<>>
        /\ pc = "done" =>
              /\ Len(results) = Len(generated)
              /\ generated = Indexes(Len(contexts))

\* C2, corrected: in a dry run nothing is ever called on the transport
\* collaborator (no SMTP configuration, signature, encryption or send), and
\* a dry run that ends without an error has run generate for every record
\* when no test recipient is set; with a test recipient and the test count N
\* it has run generate for the records 0 .. N only (for all of them when
\* there are no more), because send returns at record N.
C2_DryRun ==
    self.dry_run =>
        /\ calls = <<>>
        /\ pc = "done" =>
              /\ Len(results) = Len(generated)
              /\ generated = Indexes(IF self.test_email_set = {} THEN Len(contexts)
                                     ELSE Min(self.test_count + 1, Len(contexts)))

\* a finished dry run with a test recipient over more records than the test
\* count, configured so that a real run would have configured SMTP, signed,
\* encrypted and sent: generate ran for the records up to the test count and
\* not for the last ones
C2_Witness ==
    /\ self.dry_run
    /\ pc = "done"
    /\ self.test_email_set # {}
    /\ self.test_count = 1
    /\ self.smtp.configured /\ self.gpg_sign /\ self.gpg_encrypt
    /\ Len(contexts) > 2
    /\ generated = <<0, 1>>
    /\ results[1].ok /\ results[2].ok
    /\ calls = <<>>

\* C3: an error raised by CSV loading, by generate for record k or by the
\* dispatch of record k ends send at once with that error: the failing call is
\* the last call made, no record is generated or dispatched twice, and nothing
\* is generated or dispatched for a later record.
C3_Abort ==
    /\ err # None => pc = "failed"
    /\ (pc # "configured" /\ ~CreateContext(self).ok) =>
          /\ pc = "failed" /\ err = CreateContext(self).err
          /\ generated = <<>> /\ calls = <<>>
    /\ \A j \in DOMAIN generated :
          /\ generated[j] = j - 1
          /\ ~results[j].ok =>
                /\ j = Len(generated)
                /\ pc = "failed" /\ err = results[j].err
                /\ \A c \in Range(calls) : c.rec < generated[j]
    /\ \A j \in DOMAIN calls :
          /\ calls[j].rec < Len(generated)
          /\ calls[j].outcome # "ok" =>
                /\ j = Len(calls)
                /\ pc = "failed" /\ err = SendError(calls[j].outcome)
                /\ calls[j].rec = Len(generated) - 1
    /\ \A j, k \in DOMAIN SendCalls : SendCalls[j].rec = SendCalls[k].rec => j = k
    /\ pc = "failed" => i >= Len(generated) - 1

\* a run whose second dispatch failed with records still to come: the first
\* message was sent, the failed attempt is the last call
C3_Witness ==
    /\ pc = "failed"
    /\ Len(contexts) > 2
    /\ Len(SendCalls) = 2
    /\ SendCalls[1].outcome = "ok"
    /\ SendCalls[2].outcome = "Exception"
    /\ err = "Exception"
    /\ generated = <<0, 1>>

-----------------------------------------------------------------------------
(* Properties of the loader *)

\* the normalised header of a source, and its data rows
HeaderOf(cfg) ==
    [j \in DOMAIN cfg.rows[cfg.skip_rows + 1] |->
        NormalizeHeader(cfg.rows[cfg.skip_rows + 1][j])]
DataRowsOf(cfg) == SubSeq(cfg.rows, cfg.skip_rows + 2, Len(cfg.rows))

\* the header row exists, has only non-empty names and a recipient column
ValidHeader(cfg) ==
    /\ Len(cfg.rows) > cfg.skip_rows
    /\ \A j \in DOMAIN HeaderOf(cfg) : HeaderOf(cfg)[j] # ""
    /\ RecipientColumn(HeaderOf(cfg)) # 0

AllHeadersValid ==
    /\ self.csv_input # None
    /\ \A n \in DOMAIN self.csv_input : ValidHeader(self.csv_input[n])

\* the recipient cell of every data row of every source, in order; None for a
\* row that has no such cell
RECURSIVE RecipientCells(_, _)
RecipientCells(csv_input, from) ==
    IF from > Len(csv_input) THEN <<>>
    ELSE LET cfg == csv_input[from]
             col == RecipientColumn(HeaderOf(cfg))
             rows == DataRowsOf(cfg)
         IN  [j \in DOMAIN rows |->
                 IF col <= Len(rows[j]) THEN Join(rows[j][col]) ELSE None]
             \o RecipientCells(csv_input, from + 1)

\* C4: when every source has a valid header with a recipient column, the
\* loader yields exactly one record per data row, and each record's recipient
\* and to are non-empty and equal the row's cell in the recipient column.
C4_OneRecordPerRow ==
    (pc # "configured" /\ AllHeadersValid) =>
        LET cells == RecipientCells(self.csv_input, 1)
        IN  /\ CreateContext(self).ok
            /\ Len(contexts) = Len(cells)
            /\ \A j \in DOMAIN cells :
                  /\ cells[j] # None /\ cells[j] # ""
                  /\ contexts[j]["recipient"] = cells[j]
                  /\ contexts[j]["to"] = cells[j]

\* C5: a data row with fewer cells than the header never makes the loader
\* raise: with valid headers and no row longer than its header, loading
\* succeeds with one record per row, whose keys are those of the cells the row
\* has and the fixed fields.
C5_ShortRowsAccepted ==
    (/\ pc # "configured"
     /\ AllHeadersValid
     /\ \A n \in DOMAIN self.csv_input :
           \A row \in Range(DataRowsOf(self.csv_input[n])) :
               Len(row) <= Len(HeaderOf(self.csv_input[n])))
    => /\ CreateContext(self).ok
       /\ Len(contexts) = Len(RecipientCells(self.csv_input, 1))

-----------------------------------------------------------------------------
(* Properties of the assembler *)

MetaKeys(t) == {t.meta[j].key : j \in DOMAIN t.meta}

\* the value the front matter of t gives key k: a string rendered against
\* context, any other value as YAML loaded it
MetaValue(t, k, context) ==
    LET value == t.meta[SetMax({j \in DOMAIN t.meta : t.meta[j].key = k})].value
    IN  IF IsStr(value) THEN JinjaRender(value, context).val ELSE PyValue(value[1].s)

\* the front matter defines from and does not define sender
FromOnly(t) == t.present /\ "from" \in MetaKeys(t) /\ "sender" \notin MetaKeys(t)

\* the record generate was called for the j-th time with
RecordOf(j) == contexts[generated[j] + 1]

\* the Markdown stage of generate for a record
MarkdownOf(context) ==
    MarkdownStage(self.markdown_template, self.html_template, context)

\* C6: with a Markdown template, no HTML template and a resolvable sender,
\* generate succeeds and the HTML part is the default HTML wrapper rendered
\* with the converted Markdown body as content.
C6_DefaultHtmlWrapper ==
    \A j \in DOMAIN results :
        LET md == self.markdown_template
            sep == SeparateContentAndMetadata(md, RecordOf(j))
            body == JinjaRender(sep.val.content, sep.val.context)
            ext == Put(sep.val.context, "content", MarkdownRender(body.val))
        IN  (/\ md.present /\ ~self.html_template.present
             /\ ~self.plaintext_template.present
             /\ sep.ok /\ body.ok
             /\ Truthy(Get(ext, "sender", None)))
            => /\ results[j].ok
               /\ results[j].val.html = JinjaRender(DEFAULTHTML_TEMPLATE.body, ext).val

\* no default sender, no from or sender column, no from or sender in the
\* front matter of a supplied template
NoSenderResolvable ==
    /\ self.sender = None
    /\ \A n \in DOMAIN self.csv_input :
          {"from", "sender"} \cap Range(HeaderOf(self.csv_input[n])) = {}
    /\ \A t \in {self.plaintext_template, self.markdown_template, self.html_template} :
          {"from", "sender"} \cap MetaKeys(t) = {}

\* the three stages of generate before the sender check succeed for a record
StagesOk(context) ==
    LET m == MarkdownOf(context)
    IN  /\ m.ok
        /\ LET h == HtmlStage(m.val.html_template, m.val.context)
           IN  /\ h.ok
               /\ PlaintextStage(self.plaintext_template, context,
                                 h.val.context, h.val.html_content).ok

\* C7: when no sender is resolvable, every generate call fails and returns no
\* message, with the missing-sender error when the rendering stages before the
\* check succeed, and nothing is dispatched for the record.
C7_MissingSender ==
    NoSenderResolvable =>
        \A j \in DOMAIN results :
            /\ ~results[j].ok
            /\ StagesOk(RecordOf(j)) => results[j].err = "Exception: Missing sender"
            /\ \A c \in Range(calls) : c.rec # generated[j]
            /\ pc = "failed" /\ err = results[j].err

\* a record whose templates render and whose generate failed for the sender
C7_Witness ==
    /\ NoSenderResolvable
    /\ self.html_template.present
    /\ Len(results) = 1
    /\ StagesOk(RecordOf(1))
    /\ results[1].err = "Exception: Missing sender"
    /\ pc = "failed"

\* C8: every message generate returns, and every message handed to the
\* transport, has a non-empty recipient and a non-empty sender.
C8_AddressesResolved ==
    /\ \A j \in DOMAIN results :
          results[j].ok => (results[j].val.to # {} /\ Truthy(results[j].val.from))
    /\ \A c \in Range(SendCalls) : c.msg.to # {} /\ Truthy(c.msg.from)

\* C9 as stated: whenever the front matter of a supplied template defines from
\* and no sender, the assembled message's sender is that from value.
C9_FromOfAnyTemplate ==
    \A j \in DOMAIN results :
        results[j].ok =>
            /\ FromOnly(self.plaintext_template) =>
                  results[j].val.from = MetaValue(self.plaintext_template, "from", RecordOf(j))
            /\ FromOnly(self.markdown_template) =>
                  results[j].val.from = MetaValue(self.markdown_template, "from", RecordOf(j))
            /\ FromOnly(self.html_template) =>
                  results[j].val.from =
                      MetaValue(self.html_template, "from", MarkdownOf(RecordOf(j)).val.context)

\* C9 amended: for a message generate returns, a non-empty from of a front
\* matter without sender is the message's sender when it is the HTML
\* template's; when it is the Markdown template's and the HTML template's
\* front matter defines neither from nor sender; when it is the plaintext
\* template's and neither the record nor the Markdown and HTML front matter
\* give a sender.
C9_FromBecomesSender ==
    \A j \in DOMAIN results :
        results[j].ok =>
            LET pt == self.plaintext_template
                md == self.markdown_template
                html == self.html_template
                ctx == RecordOf(j)
            IN  /\ (FromOnly(html) /\ MetaValue(html, "from", MarkdownOf(ctx).val.context) # "")
                    => results[j].val.from = MetaValue(html, "from", MarkdownOf(ctx).val.context)
                /\ (/\ FromOnly(md) /\ MetaValue(md, "from", ctx) # ""
                    /\ {"from", "sender"} \cap MetaKeys(html) = {})
                    => results[j].val.from = MetaValue(md, "from", ctx)
                /\ (/\ FromOnly(pt) /\ MetaValue(pt, "from", ctx) # ""
                    /\ ~Truthy(Get(ctx, "sender", None))
                    /\ {"from", "sender"} \cap (MetaKeys(md) \cup MetaKeys(html)) = {})
                    => results[j].val.from = MetaValue(pt, "from", ctx)

\* a message whose sender is the from of the HTML front matter, not the
\* caller's default sender the record carries
C9_Witness ==
    /\ Len(results) > 0
    /\ results[1].ok
    /\ FromOnly(self.html_template)
    /\ Get(RecordOf(1), "sender", None) = "x@y"
    /\ results[1].val.from = "h@x"

-----------------------------------------------------------------------------
(* Properties of the front-matter splitter *)

\* the splitter was applied to a document with front matter and returned
SplitDone == pc = "split" /\ probe.template.present /\ probe.out.ok

\* C10 as stated: every key of the front matter has its rendered front-matter
\* value in the extended context, and every other key of the base context
\* keeps its base value.
C10_MetadataOverBase ==
    SplitDone =>
        LET t == probe.template
            base == probe.context
            ext == probe.out.val.context
        IN  /\ \A k \in MetaKeys(t) : k \in DOMAIN ext /\ ext[k] = MetaValue(t, k, base)
            /\ \A k \in (DOMAIN base) \ MetaKeys(t) : k \in DOMAIN ext /\ ext[k] = base[k]

\* C10 amended: as stated, except that when the front matter defines from and
\* not sender, sender has the rendered from value, whatever the base context
\* holds for it; the extended context has no other keys.
C10_MetadataAndAliasOverBase ==
    /\ SplitDone =>
        LET t == probe.template
            base == probe.context
            ext == probe.out.val.context
            aliased == IF FromOnly(t) THEN {"sender"} ELSE {}
        IN  /\ DOMAIN ext = (DOMAIN base) \cup MetaKeys(t) \cup aliased
            /\ \A k \in MetaKeys(t) : ext[k] = MetaValue(t, k, base)
            /\ \A k \in aliased : ext[k] = MetaValue(t, "from", base)
            /\ \A k \in (DOMAIN base) \ (MetaKeys(t) \cup aliased) : ext[k] = base[k]
    /\ (pc = "split" /\ ~probe.template.present) =>
          (probe.out.ok /\ probe.out.val.context = probe.context)

\* the splitter returned a subject from the front matter, rendered from the
\* record, where the base context held the caller's default subject
C10_Witness ==
    /\ SplitDone
    /\ "subject" \in MetaKeys(probe.template)
    /\ Get(probe.context, "subject", None) = "S"
    /\ probe.out.val.context["subject"] = "News for a@x"
    /\ probe.out.val.context["recipient"] = "a@x"

-----------------------------------------------------------------------------
(* Properties of the command line *)

\* every record of the command line's sources loads and renders: what a run
\* needs from the recipients lists, the templates, the sender and the subject
CliRenders(a) ==
    LET obj == CliMailSettings(CliInputSettings(a).val, a)
        c == CreateContext(obj)
    IN  /\ CliInputSettings(a).ok
        /\ c.ok
        /\ \A k \in DOMAIN c.val :
              Generate(obj.plaintext_template, obj.markdown_template,
                       obj.html_template, c.val[k]).ok

\* main exits with 0 exactly when nothing was raised inside the try
\* statement, and with 1 when an exception or a user interrupt was
ExitMatchesError ==
    pc = "exited" =>
        /\ exit_code \in {0, 1}
        /\ exit_code = 0 <=> err = None
        /\ err # None => exit_code = 1

\* a dry run that is not interrupted, whose records all render and whose
\* delay is one time.sleep accepts exits with 0, whatever SMTP host, username
\* and password the command line gives
DryRunNeedsNoSmtp ==
    (pc = "exited" /\ args.dry_run /\ err # "KeyboardInterrupt" /\ args.delay >= 0
        /\ CliRenders(args))
        => exit_code = 0

\* C11: main exits with code 0 exactly when the configured run completes
\* without an error and with code 1 whenever an exception or a user interrupt
\* occurs inside the try statement; and a dry run exits with 0 when all
\* records render without error, also when no SMTP host, username or password
\* was given.
C11_ExitCode == ExitMatchesError /\ DryRunNeedsNoSmtp

-----------------------------------------------------------------------------
(* Properties of the plaintext part *)

\* what C12 says of the call with index j in the history, with Markdown
\* templates drawn from mds in the calls it is compared with: the record it
\* was given holds after the call nothing the Markdown and HTML stages put
\* there (it is as the loader returned it, or as the splitter of the
\* plaintext stage returned it); the plaintext part of a message it returns
\* is the plaintext template rendered against the loaded record, its front
\* matter split against that record; and every generate call for the same
\* record and plaintext template with another Markdown and HTML template
\* that returns a message returns the same plaintext part
PlaintextIndependent(j, mds) ==
    LET pt == self.plaintext_template
        rec == RecordOf(j)
        sep == SeparateContentAndMetadata(pt, rec)
    IN  /\ records[j] \in {rec} \cup (IF sep.ok THEN {sep.val.context} ELSE {})
        /\ merge_dicts = "new" => records[j] = rec
        /\ results[j].ok =>
              /\ sep.ok
              /\ results[j].val.plain = JinjaRender(sep.val.content, sep.val.context).val
              /\ \A md2 \in mds, html2 \in ProbeHtmlPool :
                    LET g2 == Generate(pt, md2, html2, rec)
                    IN  g2.ok => g2.val.plain = results[j].val.plain

\* the call with index j in the history has just returned or raised: send is
\* at the statement that follows it.  What the history holds of a call never
\* changes afterwards, so a call is judged in this state once and for all.
JustReturned(j) == j = Len(results) /\ pc \in {"dispatch", "failed"}

-----------------------------------------------------------------------------
(* Properties of the order of processing *)

\* C13: the record with index k is the k-th data row, counting through the
\* configured sources in order and through the rows of each in order; the
\* messages handed to the transport are those of records with strictly
\* increasing indexes, each generated from its record, so none is handed over
\* twice; generate is called for the records in index order; and when
\* generate has been called for a record, the loop body of every record
\* before it has run to its end, in a run that is not a dry run with its
\* message sent.
C13_InOrder ==
    (pc # "configured" /\ CreateContext(self).ok) =>
        LET cells == RecipientCells(self.csv_input, 1)
        IN  /\ Len(contexts) = Len(cells)
            /\ \A k \in DOMAIN contexts : contexts[k]["to"] = cells[k]
            /\ \A j \in DOMAIN SendCalls :
                  LET g == GenerateOf(SendCalls[j].rec)
                  IN  /\ g.ok
                      /\ SendCalls[j].msg =
                            IF self.test_email_set = {} THEN g.val
                            ELSE OverrideRecipients(g.val, self)
                      /\ \A j2 \in DOMAIN SendCalls :
                            j < j2 => SendCalls[j].rec < SendCalls[j2].rec
            /\ generated = Indexes(Len(generated))
            /\ Len(generated) <= i + 1
            /\ ~self.dry_run =>
                  \A j \in 1..(Len(generated) - 1) :
                      /\ Len(SendCalls) >= j
                      /\ SendCalls[j].rec = generated[j]
                      /\ SendCalls[j].outcome = "ok"

\* a finished run over two different sources whose four messages went out in
\* file order, then row order
C13_Witness ==
    /\ pc = "done"
    /\ Len(self.csv_input) = 2
    /\ self.csv_input[1].path = "good.csv"
    /\ self.csv_input[2].path = "short.csv"
    /\ self.test_email_set = {}
    /\ Len(SendCalls) = 4
    /\ SendCalls[1].msg.to = {"a@x"}
    /\ SendCalls[2].msg.to = {"b@x"}
    /\ SendCalls[3].msg.to = {"c@x"}
    /\ SendCalls[4].rec = 3

=============================================================================
